---- MODULE Spec2Model ----
(***************************************************************************)
(* A model of the annotation engine of PatchScope (diffannotator):         *)
(* line realignment, the default line classifier, the hunk annotator and   *)
(* the per-file merge of src/src/diffannotator/annotate.py.                *)
(*                                                                         *)
(* Python values are represented as follows.                               *)
(*   str            a sequence of one-character strings                    *)
(*   token          the tuple <<index, token_type, text_fragment>>;        *)
(*                  index is 0-based as in Python                          *)
(*   list           a sequence                                             *)
(*   dict           a function; the empty dict is <<>>                     *)
(***************************************************************************)
EXTENDS Integers, Sequences, FiniteSets, TLC

VARIABLES
    pc,                 \* position of the run: which call happens next
    code,               \* realignment: the text that was lexed
    tokens_unprocessed, \* realignment: the lexer's tokens for `code`
    tokens_split,       \* realignment: result of split_multiline_lex_tokens
    tokens_group,       \* realignment: result of group_tokens_by_line
    tokens_filled,      \* realignment: result of front_fill_gaps
    lexer_cuts,         \* the lexer in use: the offsets at which it ends a token
    gaps_data,          \* front_fill_gaps: its argument
    gaps_filled,        \* front_fill_gaps: its result
    tokens_list,        \* line_is_comment: its argument, the tokens of a line
    is_comment,         \* line_is_comment: its result
    line_type,          \* the default classification of tokens_list
    upd_d,              \* deep_update: the dict d to update
    upd_u,              \* deep_update: the update u
    upd_result,         \* deep_update: what the call returned (or that it raised)
    PURPOSE_TO_ANNOTATION, \* module global: file purpose -> forced line annotation
    line_callback,      \* AnnotatedPatchedFile.line_callback (class attribute)
    option_values,      \* purpose_to_annotation_callback: its argument values
    option_no,          \* purpose_to_annotation_callback: values handled so far
    patched_file,       \* the unidiff.PatchedFile being annotated
    apf,                \* the AnnotatedPatchedFile built from patched_file
    hunk_no,            \* number of hunks of patched_file processed so far
    hunk_data,          \* what AnnotatedHunk.process returned for the last hunk
    hunk_outputs,       \* history: what it returned for each hunk, in order
    lex_calls,          \* history: the texts given to the lexer for the last hunk
    callback_calls,     \* history: the token lists given to line_callback for it
    diff_file,          \* annotate_single_diff: what is at diff_path
    missing_ok,         \* annotate_single_diff: its missing_ok argument
    diff_result,        \* annotate_single_diff: what the call returned or raised
    stderr,             \* messages printed to sys.stderr, in order
    stdout,             \* messages printed to sys.stdout, in order
    patches_dir,        \* Bug: the '*.diff' files of read_dir, in glob order
    patch_no,           \* Bug._get_patches_from_dir: files visited so far
    patches_data,       \* Bug._get_patches_from_dir: patch file name -> annotations
    gather_docs,        \* aggregation: the annotation documents, [path, data] each
    timeline_pairs,     \* map_diff_to_timeline: its purpose_to_annotation argument
    gather_result,      \* aggregation: the results of the calls, by name
    dataset,            \* the annotated dataset directory on disk
    method,             \* which AnnotatedBugDataset.gather_* method runs
    bugs,               \* AnnotatedBugDataset.bugs
    bug_no,             \* gather_*: bugs of self.bugs finished so far
    annotation_no,      \* AnnotatedBug.gather_*: annotations visited so far
    bug_results,        \* AnnotatedBug.gather_*: combined_results of the bug
    combined_results    \* AnnotatedBugDataset.gather_*: combined_results

realignVars == <<code, tokens_unprocessed, tokens_split, tokens_group, tokens_filled>>
fillVars == <<gaps_data, gaps_filled>>
classifyVars == <<tokens_list, is_comment, line_type>>
updateVars == <<upd_d, upd_u, upd_result>>
configVars == <<PURPOSE_TO_ANNOTATION, line_callback, option_values, option_no>>
annotateVars == <<patched_file, apf, hunk_no, hunk_data, hunk_outputs, lex_calls,
                  callback_calls>>

diffVars == <<diff_file, missing_ok, diff_result, stderr, stdout>>
bugVars == <<patches_dir, patch_no, patches_data>>
mapperVars == <<gather_docs, timeline_pairs, gather_result>>
datasetVars == <<dataset, method, bugs, bug_no, annotation_no, bug_results,
                 combined_results>>
gatherVars == <<mapperVars, datasetVars>>
batchVars == <<diffVars, bugVars, gatherVars>>
unitVars == <<realignVars, lexer_cuts, fillVars, classifyVars, updateVars,
              configVars, annotateVars>>

vars == <<pc, unitVars, batchVars>>

(***************************************************************************)
(* Bounds of the model.                                                    *)
(***************************************************************************)
MaxTextLen == 3
MaxCut == 2
MaxKey == 3
MaxTokens == 3
MaxHunkLines == 2
MaxHunks == 2

(***************************************************************************)
(* Characters.  LF is the line terminator; CR is a second line boundary    *)
(* of str.splitlines (alone or as CR LF).                                  *)
(***************************************************************************)
LF == "\n"
CR == "\r"
Char == {"a", "#", " ", LF, CR}
SpaceChar == {" ", LF, CR}

EmptyDict == [x \in {} |-> x]

Range(f) == {f[x] : x \in DOMAIN f}

Min(S) == CHOOSE x \in S : \A y \in S : x <= y
Max(S) == CHOOSE x \in S : \A y \in S : x >= y

\* all sequences over S of length at most n
SeqsUpTo(S, n) == UNION {[1..k -> S] : k \in 0..n}

\* ''.join(seqs)
RECURSIVE Join(_)
Join(seqs) == IF seqs = <<>> THEN <<>> ELSE Head(seqs) \o Join(Tail(seqs))

\* text.count(ch)
Count(text, ch) == Cardinality({i \in DOMAIN text : text[i] = ch})

\* text[a:b] of Python, 0-based half-open
Slice(text, a, b) == SubSeq(text, a + 1, b)

(***************************************************************************)
(* str.splitlines(keepends=True): a line ends after LF, after CR LF, or    *)
(* after a CR that no LF follows; a last line without boundary is kept.    *)
(***************************************************************************)
LineBreakAt(text, i) ==
    \/ text[i] = LF
    \/ text[i] = CR /\ ~(i < Len(text) /\ text[i + 1] = LF)

RECURSIVE SplitLinesFrom(_, _, _)
SplitLinesFrom(text, start, i) ==
    IF i > Len(text)
    THEN IF start > Len(text) THEN <<>> ELSE <<SubSeq(text, start, Len(text))>>
    ELSE IF LineBreakAt(text, i)
         THEN <<SubSeq(text, start, i)>> \o SplitLinesFrom(text, i + 1, i + 1)
         ELSE SplitLinesFrom(text, start, i + 1)

splitlines(text) == SplitLinesFrom(text, 1, 1)

(***************************************************************************)
(* Token kinds (pygments.token).  `kind in Token.Comment` of pygments is   *)
(* true of Token.Comment and of its subtypes, and likewise for the others. *)
(***************************************************************************)
TokenKind == {"Token.Comment", "Token.Comment.Single", "Token.Text",
              "Token.Text.Whitespace", "Token.Name"}

InTokenComment(token_type) == token_type \in {"Token.Comment", "Token.Comment.Single"}
InTokenTextWhitespace(token_type) == token_type = "Token.Text.Whitespace"
InTokenText(token_type) == token_type \in {"Token.Text", "Token.Text.Whitespace"}

\* str.isspace(): at least one character, and all of them whitespace
isspace(text) == text # <<>> /\ \A i \in DOMAIN text : text[i] \in SpaceChar

(***************************************************************************)
(* LEXER.lex(file_path, source).  The lexer's code is not part of the      *)
(* sources at hand; it is modelled from its contract: an ordered sequence  *)
(* of tokens that covers the text contiguously.  A lexer is given by the   *)
(* offsets at which it ends a token (cuts); the kind of a token follows    *)
(* from its first character.  No cut at all is the plain-text fallback,    *)
(* one token holding the whole text.                                       *)
(***************************************************************************)
KindOfChar(ch) ==
    CASE ch = "a" -> "Token.Name"
      [] ch = "#" -> "Token.Comment.Single"
      [] ch = " " -> "Token.Text"
      [] OTHER    -> "Token.Text.Whitespace"

Lex(cuts, source) ==
    LET n      == Len(source)
        starts == {0} \cup {c \in cuts : c < n}
        NextStart(s) == IF \E t \in starts : t > s
                        THEN Min({t \in starts : t > s}) ELSE n
        RECURSIVE From(_)
        From(s) == IF s >= n THEN <<>>
                   ELSE <<<<s, KindOfChar(source[s + 1]), Slice(source, s, NextStart(s))>>>>
                        \o From(NextStart(s))
    IN  From(0)

(***************************************************************************)
(* annotate.py: line_ends_idx                                              *)
(***************************************************************************)
RECURSIVE LineEndsFrom(_, _)
LineEndsFrom(text, i) ==
    IF i > Len(text) THEN <<>>
    ELSE (IF text[i] = LF THEN <<i>> ELSE <<>>) \o LineEndsFrom(text, i + 1)

line_ends_idx(text) == LineEndsFrom(text, 1)

(***************************************************************************)
(* annotate.py: split_multiline_lex_tokens                                 *)
(***************************************************************************)
\* the fragments of one token: the body of the for loop
RECURSIVE SplitFragments(_, _, _, _)
SplitFragments(index, token_type, lines, running_count) ==
    IF lines = <<>> THEN <<>>
    ELSE <<<<index + running_count, token_type, Head(lines)>>>>
         \o SplitFragments(index, token_type, Tail(lines),
                           running_count + Len(Head(lines)))

\* splitting without keepends: the fragments lose their line boundaries
RECURSIVE StripBoundaries(_)
StripBoundaries(lines) ==
    IF lines = <<>> THEN <<>>
    ELSE <<SelectSeq(Head(lines), LAMBDA ch : ch \notin {LF, CR})>>
         \o StripBoundaries(Tail(lines))

SplitToken_no_keepends(token) ==
    LET lines == StripBoundaries(splitlines(token[3]))
    IN  IF Len(lines) <= 1
        THEN <<token>>
        ELSE SplitFragments(token[1], token[2], lines, 0)

\* no splitting: every token is returned as it is
SplitToken_whole(token) == <<token>>

SplitToken(token) ==
    LET lines == splitlines(token[3])
    IN  IF Len(lines) <= 1
        THEN <<token>>
        ELSE SplitFragments(token[1], token[2], lines, 0)

RECURSIVE split_multiline_lex_tokens(_)
split_multiline_lex_tokens(tokens) ==
    IF tokens = <<>> THEN <<>>
    ELSE SplitToken(Head(tokens)) \o split_multiline_lex_tokens(Tail(tokens))

(***************************************************************************)
(* annotate.py: group_tokens_by_line                                       *)
(***************************************************************************)
\* the loop with token[0] <= idx: a token that starts the next line is taken
RECURSIVE PopWhileBefore_inclusive(_, _)
PopWhileBefore_inclusive(tokens_deque, idx) ==
    IF tokens_deque = <<>> \/ ~(Head(tokens_deque)[1] <= idx)
    THEN <<>>
    ELSE <<Head(tokens_deque)>> \o PopWhileBefore_inclusive(Tail(tokens_deque), idx)

\* the while loop: pops tokens while they start before idx; the first one
\* that does not is pushed back and ends the loop
RECURSIVE PopWhileBefore(_, _)
PopWhileBefore(tokens_deque, idx) ==
    IF tokens_deque = <<>> \/ ~(Head(tokens_deque)[1] < idx)
    THEN <<>>
    ELSE <<Head(tokens_deque)>> \o PopWhileBefore(Tail(tokens_deque), idx)

RECURSIVE GroupLoop(_, _, _, _)
GroupLoop(idx_code, no, tokens_deque, line_tokens) ==
    IF no >= Len(idx_code) THEN line_tokens
    ELSE LET taken == PopWhileBefore(tokens_deque, idx_code[no + 1])
             rest  == SubSeq(tokens_deque, Len(taken) + 1, Len(tokens_deque))
         IN  GroupLoop(idx_code, no + 1, rest,
                       IF taken = <<>> THEN line_tokens
                       ELSE (no :> taken) @@ line_tokens)

group_tokens_by_line(text, tokens) ==
    GroupLoop(line_ends_idx(text), 0, tokens, EmptyDict)

(***************************************************************************)
(* annotate.py: front_fill_gaps                                            *)
(***************************************************************************)
None == "None"
PyNone == [kind |-> "None", val |-> None]

RECURSIVE FillLoop(_, _, _, _, _)
FillLoop(data, key, max_key, previous_value, filled_dict) ==
    IF key > max_key THEN filled_dict
    ELSE LET value == IF key \in DOMAIN data THEN data[key] ELSE previous_value
         IN  FillLoop(data, key + 1, max_key, value, (key :> value) @@ filled_dict)

\* range(min_key, max_key): the last key is left out
front_fill_gaps_short(data) ==
    IF DOMAIN data = {} THEN EmptyDict
    ELSE FillLoop(data, Min(DOMAIN data), Max(DOMAIN data) - 1, None, EmptyDict)

front_fill_gaps(data) ==
    IF DOMAIN data = {} THEN EmptyDict
    ELSE FillLoop(data, Min(DOMAIN data), Max(DOMAIN data), None, EmptyDict)

(***************************************************************************)
(* annotate.py: line_is_comment, and the default classification of         *)
(* AnnotatedHunk.process line 421                                          *)
(***************************************************************************)
\* the for loop with its flags; the else branch breaks out of the loop
RECURSIVE CommentLoop(_, _, _)
CommentLoop(tokens, can_be_comment, cannot_be_comment) ==
    IF tokens = <<>> THEN can_be_comment /\ ~cannot_be_comment
    ELSE LET token_type    == Head(tokens)[2]
             text_fragment == Head(tokens)[3]
         IN  IF InTokenComment(token_type)
             THEN CommentLoop(Tail(tokens), TRUE, cannot_be_comment)
             ELSE IF InTokenTextWhitespace(token_type)
             THEN CommentLoop(Tail(tokens), TRUE, cannot_be_comment)
             ELSE IF InTokenText(token_type) /\ isspace(text_fragment)
             THEN CommentLoop(Tail(tokens), TRUE, cannot_be_comment)
             ELSE CommentLoop(<<>>, can_be_comment, TRUE)   \* break

\* a classifier that forgets the flag kept for a line without tokens
line_is_comment_vacuous(tokens) ==
    \A i \in DOMAIN tokens :
        \/ InTokenComment(tokens[i][2])
        \/ InTokenTextWhitespace(tokens[i][2])
        \/ InTokenText(tokens[i][2]) /\ isspace(tokens[i][3])

\* a classifier that lets the last token of the line decide
line_is_comment_last(tokens) ==
    /\ tokens # <<>>
    /\ \/ InTokenComment(tokens[Len(tokens)][2])
       \/ InTokenTextWhitespace(tokens[Len(tokens)][2])
       \/ InTokenText(tokens[Len(tokens)][2]) /\ isspace(tokens[Len(tokens)][3])

line_is_comment(tokens) == CommentLoop(tokens, FALSE, FALSE)

DefaultAnnotation(line_tokens) ==
    IF line_is_comment(line_tokens) THEN "documentation" ELSE "code"

(***************************************************************************)
(* Python values that deep_update tells apart by isinstance: a mapping, a  *)
(* mutable sequence, or anything else.  The elements of a list are never   *)
(* inspected and are plain values.                                         *)
(***************************************************************************)
PyDict(f) == [kind |-> "dict", val |-> f]
PyList(seq) == [kind |-> "list", val |-> seq]
PyScalar(x) == [kind |-> "scalar", val |-> x]
\* an exception left the call
Raised == [kind |-> "raise", val |-> "Error"]

\* d.get(k, default)
Get(d, k, default) == IF k \in DOMAIN d.val THEN d.val[k] ELSE default
\* d[k] = v
Set(d, k, v) == PyDict((k :> v) @@ d.val)

(***************************************************************************)
(* annotate.py: deep_update.  Calling .get or item assignment on a value   *)
(* that is no dict, or .extend on a value that is no list, raises.         *)
(***************************************************************************)
RECURSIVE deep_update(_, _)
RECURSIVE DeepUpdateLoop(_, _, _)

\* one pass of the for loop body, for the item (k, u[k])
DeepUpdateItem(d, k, v) ==
    IF d.kind # "dict" THEN Raised
    ELSE IF v.kind = "dict"
    THEN LET sub == deep_update(Get(d, k, PyDict(EmptyDict)), v)
         IN  IF sub.kind = "raise" THEN Raised ELSE Set(d, k, sub)
    ELSE IF v.kind = "list"
    THEN LET list_value == Get(d, k, PyList(<<>>))
         IN  IF list_value.kind # "list" THEN Raised
             ELSE Set(d, k, PyList(list_value.val \o v.val))
    ELSE Set(d, k, v)

DeepUpdateLoop(d, u, keys) ==
    IF keys = {} THEN d
    ELSE LET k  == CHOOSE x \in keys : TRUE
             d1 == DeepUpdateItem(d, k, u.val[k])
         IN  IF d1.kind = "raise" THEN Raised
             ELSE DeepUpdateLoop(d1, u, keys \ {k})

\* dict.update: every key of u replaces the value of d
deep_update_shallow(d, u) ==
    PyDict([k \in DOMAIN d.val \cup DOMAIN u.val |->
                IF k \in DOMAIN u.val THEN u.val[k] ELSE d.val[k]])

deep_update(d, u) == DeepUpdateLoop(d, u, DOMAIN u.val)

(***************************************************************************)
(* languages.py: Languages.annotate, on the paths of the model.  A path is *)
(* a sequence of pieces, <<"a/", "main.py">> for 'a/main.py', so that the  *)
(* prefix test path[:2] == "a/" is a test of its first piece.  The         *)
(* language of a path and the type of a language are read from             *)
(* languages.yml, a data file.                                             *)
(***************************************************************************)
DevNull == <<"/dev/null">>

Path2Lang(file_path) ==
    CASE file_path[Len(file_path)] = "main.py"    -> "Python"
      [] file_path[Len(file_path)] = "test_main.py" -> "Python"
      [] file_path[Len(file_path)] = "README.rst" -> "reStructuredText"
      [] file_path[Len(file_path)] = "/dev/null"  -> "/dev/null"
      [] OTHER                                    -> "unknown"

LanguageType(language) ==
    CASE language = "Python"           -> "programming"
      [] language = "reStructuredText" -> "prose"
      [] OTHER                         -> "other"     \* except KeyError

\* "test" in path.lower(); no path of the model matches PATTERN_TO_PURPOSE
PathHasTest(path) == path[Len(path)] = "test_main.py"

Path2Purpose(path, filetype) ==
    IF PathHasTest(path) THEN "test"
    ELSE IF filetype = "prose" THEN "documentation"
    ELSE IF filetype \in {"programming", "data", "markup", "other"} THEN filetype
    ELSE "unknown"

LanguagesAnnotate(path) ==
    LET language == Path2Lang(path)
        filetype == LanguageType(language)
    IN  PyDict(("language" :> PyScalar(language))
               @@ ("type" :> PyScalar(filetype))
               @@ ("purpose" :> PyScalar(Path2Purpose(path, filetype))))

(***************************************************************************)
(* annotate.py: AnnotatedPatchedFile.__init__                              *)
(***************************************************************************)
StripPrefix(path, prefix) == IF Head(path) = prefix THEN Tail(path) ELSE path

\* defaultdict[key].update(meta)
UpdateEntry(patch_data, key, meta) ==
    Set(patch_data, key,
        PyDict(meta.val @@ Get(patch_data, key, PyDict(EmptyDict)).val))

AnnotatedPatchedFileInit(pf) ==
    LET source_file == StripPrefix(pf.source_file, "a/")
        target_file == StripPrefix(pf.target_file, "b/")
        seeded == UpdateEntry(PyDict(EmptyDict), source_file,
                              LanguagesAnnotate(source_file))
    IN  [source_file |-> source_file,
         target_file |-> target_file,
         patch_data  |-> IF source_file # target_file
                         THEN UpdateEntry(seeded, target_file,
                                          LanguagesAnnotate(target_file))
                         ELSE seeded]

(***************************************************************************)
(* Line callbacks of tests/test_annotate.py                                *)
(***************************************************************************)
\* lambda tokens: "any"
CallbackAny(tokens) == "any"

\* detect_all_whitespace_line
DetectAllWhitespaceLine(tokens) ==
    IF Len(tokens) = 0 THEN "empty"
    ELSE IF \A i \in DOMAIN tokens :
                \/ InTokenTextWhitespace(tokens[i][2])
                \/ InTokenText(tokens[i][2]) /\ isspace(tokens[i][3])
    THEN "whitespace"
    ELSE None

LineCallbacks == {None, "any", "detect_all_whitespace_line"}

\* a user-supplied callback that raises an exception for a line of
\* whitespace only and leaves every other line to the default (returns None)
RaisingCallback == "raise_on_blank"

CallbackRaises(callback, tokens) ==
    /\ callback = RaisingCallback
    /\ \A i \in DOMAIN tokens : isspace(tokens[i][3])

CallLineCallback(callback, tokens) ==
    IF callback = "any" THEN CallbackAny(tokens)
    ELSE IF callback = RaisingCallback THEN None
    ELSE DetectAllWhitespaceLine(tokens)

(***************************************************************************)
(* annotate.py: AnnotatedHunk.add_line_annotation                          *)
(***************************************************************************)
LINE_TYPE_ADDED == "+"
LINE_TYPE_REMOVED == "-"
LINE_TYPE_CONTEXT == " "
LINE_TYPE_NO_NEWLINE == "\\"

\* self.patch_data[file][side].append(data) on the defaultdict of defaultdicts
AppendAnnotation(patch_data, file, side, data) ==
    LET file_data == Get(patch_data, file, PyDict(EmptyDict))
        side_list == Get(file_data, side, PyList(<<>>))
    IN  Set(patch_data, file, Set(file_data, side, PyList(Append(side_list.val, data))))

\* every line is filed, the context lines too
add_line_annotation_all(patch_data, line_no, source_file, target_file, change_type, line_annotation, purpose, tokens) ==
    AppendAnnotation(patch_data,
                     IF change_type = LINE_TYPE_REMOVED THEN source_file ELSE target_file,
                     IF change_type = LINE_TYPE_REMOVED THEN "-" ELSE "+",
                     [id |-> line_no, type |-> line_annotation,
                      purpose |-> purpose, tokens |-> tokens])

add_line_annotation(patch_data, line_no, source_file, target_file, change_type, line_annotation, purpose, tokens) ==
    LET data == [id |-> line_no, type |-> line_annotation,
                 purpose |-> purpose, tokens |-> tokens]
    IN  IF change_type = LINE_TYPE_ADDED
        THEN AppendAnnotation(patch_data, target_file, "+", data)
        ELSE IF change_type = LINE_TYPE_REMOVED
        THEN AppendAnnotation(patch_data, source_file, "-", data)
        ELSE patch_data

(***************************************************************************)
(* annotate.py: AnnotatedHunk.process.  `self` holds what the method reads *)
(* of its hunk, of the AnnotatedPatchedFile and of the module: source_file,*)
(* target_file, file_purpose, line_callback, lexer (the cuts).  The result *)
(* is the record [patch_data, lexed, called]: the returned self.patch_data,*)
(* the texts given to LEXER.lex and the token lists given to the callback. *)
(***************************************************************************)
HunkFilePath(source_file, target_file) ==
    IF source_file = DevNull THEN target_file ELSE source_file

\* lines 384-391: the forced annotation of every line of the hunk
RECURSIVE ForcedLoop(_, _, _, _, _)
ForcedLoop(self, hunk, line_idx, annotation, patch_data) ==
    IF line_idx >= Len(hunk) THEN patch_data
    ELSE ForcedLoop(self, hunk, line_idx + 1, annotation,
             add_line_annotation(patch_data, line_idx,
                                 self.source_file, self.target_file,
                                 hunk[line_idx + 1].line_type,
                                 annotation, self.file_purpose,
                                 <<<<0, "Token.Text", hunk[line_idx + 1].value>>>>))

\* lines 398-404: the lines of one image, with their place in the hunk
RECURSIVE LineData(_, _, _)
LineData(hunk, i, image_type) ==
    IF i >= Len(hunk) THEN <<>>
    ELSE (IF hunk[i + 1].line_type \in {image_type, LINE_TYPE_CONTEXT}
          THEN <<[value        |-> hunk[i + 1].value,
                  hunk_line_no |-> i,
                  line_type    |-> hunk[i + 1].line_type]>>
          ELSE <<>>)
         \o LineData(hunk, i + 1, image_type)

\* lines 417-421: the annotation of one line
LineAnnotation(callback, line_tokens) ==
    LET line_annotation == IF callback # None
                           THEN CallLineCallback(callback, line_tokens)
                           ELSE None
    IN  IF line_annotation = None THEN DefaultAnnotation(line_tokens)
        ELSE line_annotation

\* lines 414-431: the loop over the items of tokens_group, whose keys are
\* the range i..max_i
RECURSIVE AnnotateLoop(_, _, _, _, _, _)
AnnotateLoop(self, line_data, tokens_group_, i, max_i, patch_data) ==
    IF i > max_i THEN patch_data
    ELSE LET line_info   == line_data[i + 1]
             line_tokens == tokens_group_[i]
         IN  AnnotateLoop(self, line_data, tokens_group_, i + 1, max_i,
                 add_line_annotation(patch_data, line_info.hunk_line_no,
                                     self.source_file, self.target_file,
                                     line_info.line_type,
                                     LineAnnotation(self.line_callback, line_tokens),
                                     self.file_purpose, line_tokens))

\* lines 406-412: the text of one image and its tokens by line
ImageSource(hunk, image_type) ==
    LET line_data == LineData(hunk, 0, image_type)
    IN  Join([j \in 1..Len(line_data) |-> line_data[j].value])

ImageTokensGroup(self, hunk, image_type) ==
    LET source == ImageSource(hunk, image_type)
    IN  front_fill_gaps(
            group_tokens_by_line(source,
                split_multiline_lex_tokens(Lex(self.lexer, source))))

\* lines 397-431: one pass of the loop over the two images
LexedImage(self, hunk, image_type, patch_data) ==
    LET group == ImageTokensGroup(self, hunk, image_type)
    IN  IF DOMAIN group = {} THEN patch_data
        ELSE AnnotateLoop(self, LineData(hunk, 0, image_type), group,
                          Min(DOMAIN group), Max(DOMAIN group), patch_data)

HunkProcess(self, hunk, purpose_to_annotation) ==
    IF self.file_purpose \in DOMAIN purpose_to_annotation
    THEN [patch_data |-> ForcedLoop(self, hunk, 0,
                                    purpose_to_annotation[self.file_purpose],
                                    PyDict(EmptyDict)),
          lexed      |-> {},
          called     |-> {}]
    ELSE [patch_data |-> LexedImage(self, hunk, LINE_TYPE_REMOVED,
                             LexedImage(self, hunk, LINE_TYPE_ADDED, PyDict(EmptyDict))),
          lexed      |-> {ImageSource(hunk, t) : t \in {LINE_TYPE_ADDED, LINE_TYPE_REMOVED}},
          called     |-> IF self.line_callback = None THEN {}
                         ELSE UNION {Range(ImageTokensGroup(self, hunk, t)) :
                                        t \in {LINE_TYPE_ADDED, LINE_TYPE_REMOVED}}]

\* lines 414-419: the call of the line callback raises for a line of the
\* hunk, which ends AnnotatedHunk.process with the exception
HunkRaises(self, hunk, purpose_to_annotation) ==
    /\ self.file_purpose \notin DOMAIN purpose_to_annotation
    /\ self.line_callback # None
    /\ \E image_type \in {LINE_TYPE_ADDED, LINE_TYPE_REMOVED} :
           \E line_tokens \in Range(ImageTokensGroup(self, hunk, image_type)) :
               CallbackRaises(self.line_callback, line_tokens)

\* what AnnotatedHunk.process reads of the file it belongs to (lines 374-381)
HunkSelf(file, callback, cuts) ==
    [source_file   |-> file.source_file,
     target_file   |-> file.target_file,
     file_purpose  |-> file.patch_data.val[HunkFilePath(file.source_file,
                                                       file.target_file)].val["purpose"].val,
     line_callback |-> callback,
     lexer         |-> cuts]

(***************************************************************************)
(* Variables a specification does not use stay at these values.            *)
(***************************************************************************)
RealignIdle ==
    /\ code = <<>>
    /\ tokens_unprocessed = <<>>
    /\ tokens_split = <<>>
    /\ tokens_group = EmptyDict
    /\ tokens_filled = EmptyDict

FillIdle ==
    /\ gaps_data = EmptyDict
    /\ gaps_filled = EmptyDict

ClassifyIdle ==
    /\ tokens_list = <<>>
    /\ is_comment = FALSE
    /\ line_type = ""

UpdateIdle ==
    /\ upd_d = PyDict(EmptyDict)
    /\ upd_u = PyDict(EmptyDict)
    /\ upd_result = PyDict(EmptyDict)

\* line 33 and line 232: the values the module is loaded with
\* no --purpose-to-annotation option: the callback gets None
OptionsIdle ==
    /\ option_values = PyNone
    /\ option_no = 0

ConfigDefault ==
    /\ PURPOSE_TO_ANNOTATION = ("documentation" :> "documentation")
    /\ line_callback = None
    /\ OptionsIdle

NoFile == [source_file |-> DevNull, target_file |-> DevNull, hunks |-> <<>>]
NoAnnotatedFile == [source_file |-> DevNull, target_file |-> DevNull,
                    patch_data |-> PyDict(EmptyDict)]

AnnotateIdle ==
    /\ patched_file = NoFile
    /\ apf = NoAnnotatedFile
    /\ hunk_no = 0
    /\ hunk_data = PyDict(EmptyDict)
    /\ hunk_outputs = <<>>
    /\ lex_calls = {}
    /\ callback_calls = {}

NoDiffFile == [raises |-> "None", is_dir |-> FALSE, patch_set |-> <<>>]

DiffIdle ==
    /\ diff_file = NoDiffFile
    /\ missing_ok = FALSE
    /\ diff_result = PyDict(EmptyDict)
    /\ stderr = <<>>
    /\ stdout = <<>>

BugIdle ==
    /\ patches_dir = <<>>
    /\ patch_no = 0
    /\ patches_data = EmptyDict

MapperIdle ==
    /\ gather_docs = <<>>
    /\ timeline_pairs = PyNone
    /\ gather_result = EmptyDict

NoDataset == [readable |-> TRUE, bugs |-> <<>>]

DatasetIdle ==
    /\ dataset = NoDataset
    /\ method = "gather_data"
    /\ bugs = <<>>
    /\ bug_no = 0
    /\ annotation_no = 0
    /\ bug_results = EmptyDict
    /\ combined_results = EmptyDict

GatherIdle == MapperIdle /\ DatasetIdle

BatchIdle == DiffIdle /\ BugIdle /\ GatherIdle

(***************************************************************************)
(* Line realignment run on one text: lex, split, group, front-fill, as in  *)
(* AnnotatedHunk.process lines 408-412 and in TestCLexer.                  *)
(***************************************************************************)
RealignInit ==
    /\ pc = "lex"
    /\ code \in SeqsUpTo(Char, MaxTextLen)
    /\ lexer_cuts \in SUBSET (1..MaxCut)
    /\ tokens_unprocessed = <<>>
    /\ tokens_split = <<>>
    /\ tokens_group = EmptyDict
    /\ tokens_filled = EmptyDict
    /\ FillIdle
    /\ ClassifyIdle
    /\ UpdateIdle
    /\ ConfigDefault
    /\ AnnotateIdle
    /\ BatchIdle

LexStep ==
    /\ pc = "lex"
    /\ tokens_unprocessed' = Lex(lexer_cuts, code)
    /\ pc' = "split"
    /\ UNCHANGED <<code, lexer_cuts, tokens_split, tokens_group, tokens_filled,
                   fillVars, classifyVars, updateVars, configVars, annotateVars, batchVars>>

SplitStep ==
    /\ pc = "split"
    /\ tokens_split' = split_multiline_lex_tokens(tokens_unprocessed)
    /\ pc' = "group"
    /\ UNCHANGED <<code, lexer_cuts, tokens_unprocessed, tokens_group, tokens_filled,
                   fillVars, classifyVars, updateVars, configVars, annotateVars, batchVars>>

GroupStep ==
    /\ pc = "group"
    /\ tokens_group' = group_tokens_by_line(code, tokens_split)
    /\ pc' = "fill"
    /\ UNCHANGED <<code, lexer_cuts, tokens_unprocessed, tokens_split, tokens_filled,
                   fillVars, classifyVars, updateVars, configVars, annotateVars, batchVars>>

FillStep ==
    /\ pc = "fill"
    /\ tokens_filled' = front_fill_gaps(tokens_group)
    /\ pc' = "realigned"
    /\ UNCHANGED <<code, lexer_cuts, tokens_unprocessed, tokens_split, tokens_group,
                   fillVars, classifyVars, updateVars, configVars, annotateVars, batchVars>>

RealignNext == LexStep \/ SplitStep \/ GroupStep \/ FillStep

SpecRealign == RealignInit /\ [][RealignNext]_vars

\* ''.join(token[2] for token in tokens)
TokensText(tokens) == Join([i \in 1..Len(tokens) |-> tokens[i][3]])

\* the physical lines of a text: each ends after its LF; a last line without
\* LF is a line too
RECURSIVE PhysicalLinesFrom(_, _, _)
PhysicalLinesFrom(text, start, i) ==
    IF i > Len(text)
    THEN IF start > Len(text) THEN <<>> ELSE <<SubSeq(text, start, Len(text))>>
    ELSE IF text[i] = LF
         THEN <<SubSeq(text, start, i)>> \o PhysicalLinesFrom(text, i + 1, i + 1)
         ELSE PhysicalLinesFrom(text, start, i + 1)

PhysicalLines(text) == PhysicalLinesFrom(text, 1, 1)

\* C1: after split_multiline_lex_tokens the fragment texts, concatenated in
\* emission order, equal the text T the input tokens concatenate to, and no
\* fragment holds more than one line terminator LF.
C1_SplitReconstitutes ==
    pc \in {"group", "fill", "realigned"} =>
        /\ TokensText(tokens_split) = TokensText(tokens_unprocessed)
        /\ TokensText(tokens_split) = code
        /\ \A i \in DOMAIN tokens_split : Count(tokens_split[i][3], LF) <= 1

\* a token holding two line terminators was split
C1_Witness ==
    /\ pc = "group"
    /\ \E i \in DOMAIN tokens_unprocessed : Count(tokens_unprocessed[i][3], LF) >= 2
    /\ Len(tokens_split) > Len(tokens_unprocessed)

\* C2 (as claimed): grouping the split tokens of a text with N physical lines
\* and front-filling yields exactly the keys 0..N-1, and the token texts of
\* line i concatenate to the i-th physical line, the last line being allowed
\* to lack its terminator.
C2_LineGroupingComplete ==
    pc = "realigned" =>
        LET lines == PhysicalLines(code)
        IN  /\ DOMAIN tokens_filled = 0..(Len(lines) - 1)
            /\ \A i \in DOMAIN tokens_filled :
                   TokensText(tokens_filled[i]) = lines[i + 1]

(***************************************************************************)
(* front_fill_gaps applied to a mapping with integer keys.                 *)
(***************************************************************************)
FillValue == {"a", "b", "c"}

\* the dicts with keys among S and values in V
DictsOver(S, V) == UNION {[K -> V] : K \in SUBSET S}

FrontFillInit ==
    /\ pc = "front_fill_gaps"
    /\ gaps_data \in DictsOver((-1)..MaxKey, FillValue)
    /\ gaps_filled = EmptyDict
    /\ lexer_cuts = {}
    /\ RealignIdle
    /\ ClassifyIdle
    /\ UpdateIdle
    /\ ConfigDefault
    /\ AnnotateIdle
    /\ BatchIdle

FrontFill ==
    /\ pc = "front_fill_gaps"
    /\ gaps_filled' = front_fill_gaps(gaps_data)
    /\ pc' = "filled"
    /\ UNCHANGED <<gaps_data, lexer_cuts, realignVars, classifyVars, updateVars,
                   configVars, annotateVars, batchVars>>

FrontFillNext == FrontFill

SpecFrontFill == FrontFillInit /\ [][FrontFillNext]_vars

\* C3: front_fill_gaps of the empty mapping is empty; otherwise the result's
\* keys are exactly min(D)..max(D), every key of D keeps its value and every
\* missing key takes the value of the nearest smaller key of D.
C3_FrontFillLaw ==
    pc = "filled" =>
        IF DOMAIN gaps_data = {}
        THEN DOMAIN gaps_filled = {}
        ELSE /\ DOMAIN gaps_filled = Min(DOMAIN gaps_data)..Max(DOMAIN gaps_data)
             /\ \A k \in DOMAIN gaps_data : gaps_filled[k] = gaps_data[k]
             /\ \A k \in DOMAIN gaps_filled \ DOMAIN gaps_data :
                    gaps_filled[k] = gaps_data[Max({j \in DOMAIN gaps_data : j < k})]

\* a gap of two keys was filled, between keys of different values
C3_Witness ==
    /\ pc = "filled"
    /\ \E k \in DOMAIN gaps_data :
           /\ k + 3 \in DOMAIN gaps_data
           /\ k + 1 \notin DOMAIN gaps_data
           /\ k + 2 \notin DOMAIN gaps_data
           /\ gaps_data[k] # gaps_data[k + 3]
           /\ gaps_filled[k + 2] = gaps_data[k]

(***************************************************************************)
(* The default classifier applied to the tokens of one line.               *)
(***************************************************************************)
LineText == {<<>>, <<" ">>, <<"a">>}

LineToken == {<<0, token_type, text_fragment>> :
                  token_type \in TokenKind, text_fragment \in LineText}

ClassifyInit ==
    /\ pc = "line_is_comment"
    /\ tokens_list \in SeqsUpTo(LineToken, MaxTokens)
    /\ is_comment = FALSE
    /\ line_type = ""
    /\ lexer_cuts = {}
    /\ RealignIdle
    /\ FillIdle
    /\ UpdateIdle
    /\ ConfigDefault
    /\ AnnotateIdle
    /\ BatchIdle

Classify ==
    /\ pc = "line_is_comment"
    /\ is_comment' = line_is_comment(tokens_list)
    /\ line_type' = DefaultAnnotation(tokens_list)
    /\ pc' = "classified"
    /\ UNCHANGED <<tokens_list, lexer_cuts, realignVars, fillVars, updateVars,
                   configVars, annotateVars, batchVars>>

ClassifyNext == Classify

SpecClassify == ClassifyInit /\ [][ClassifyNext]_vars

\* a token that may stand on a comment line: a comment kind, a whitespace
\* kind, or generic text whose text is whitespace (str.isspace)
CommentLike(token) ==
    \/ InTokenComment(token[2])
    \/ InTokenTextWhitespace(token[2])
    \/ InTokenText(token[2]) /\ isspace(token[3])

AllCommentLike(tokens) == \A i \in DOMAIN tokens : CommentLike(tokens[i])

\* C4 (as claimed): for every token list, the empty one included, the line is
\* a comment and classified "documentation" iff every token is comment-like,
\* and is classified "code" otherwise.
C4_ClassifierIffAll ==
    pc = "classified" =>
        /\ is_comment <=> AllCommentLike(tokens_list)
        /\ line_type = IF AllCommentLike(tokens_list) THEN "documentation" ELSE "code"

\* C4 (amended): for every non-empty token list the line is a comment and
\* classified "documentation" iff every token is comment-like; the empty
\* token list is not a comment and is classified "code", as is every other
\* line.
C4_ClassifierNonEmpty ==
    pc = "classified" =>
        /\ is_comment <=> (tokens_list # <<>> /\ AllCommentLike(tokens_list))
        /\ line_type = IF tokens_list # <<>> /\ AllCommentLike(tokens_list)
                       THEN "documentation" ELSE "code"

\* a line of a comment, whitespace and blank generic text was classified
\* "documentation"
C4_Witness ==
    /\ pc = "classified"
    /\ Len(tokens_list) = 3
    /\ InTokenComment(tokens_list[1][2])
    /\ InTokenTextWhitespace(tokens_list[2][2])
    /\ tokens_list[3][2] = "Token.Text"
    /\ line_type = "documentation"

(***************************************************************************)
(* deep_update applied to two nested dicts.  The values of d and of u are  *)
(* drawn from different sets, so that the result shows where each came     *)
(* from.                                                                   *)
(***************************************************************************)
UpdateKey == {"a", "b"}

LeafD == {PyScalar(1), PyList(<<1>>)}
LeafU == {PyScalar(2), PyList(<<2>>)}

PyDictsOver(V) == {PyDict(f) : f \in DictsOver(UpdateKey, V)}

NestedD == PyDictsOver(LeafD \cup PyDictsOver(LeafD))
NestedU == PyDictsOver(LeafU \cup PyDictsOver(LeafU))

DeepUpdateInit ==
    /\ pc = "deep_update"
    /\ upd_d \in NestedD
    /\ upd_u \in NestedU
    /\ upd_result = PyDict(EmptyDict)
    /\ lexer_cuts = {}
    /\ RealignIdle
    /\ FillIdle
    /\ ClassifyIdle
    /\ ConfigDefault
    /\ AnnotateIdle
    /\ BatchIdle

DeepUpdate ==
    /\ pc = "deep_update"
    /\ upd_result' = deep_update(upd_d, upd_u)
    /\ pc' = "updated"
    /\ UNCHANGED <<upd_d, upd_u, lexer_cuts, realignVars, fillVars, classifyVars,
                   configVars, annotateVars, batchVars>>

DeepUpdateNext == DeepUpdate

SpecDeepUpdate == DeepUpdateInit /\ [][DeepUpdateNext]_vars

\* d and u have matching shapes: where u holds a mapping d holds a mapping of
\* matching shape or nothing, and where u holds a list d holds a list or
\* nothing
RECURSIVE ShapesMatch(_, _)
ShapesMatch(d, u) ==
    \A k \in DOMAIN u.val \cap DOMAIN d.val :
        /\ u.val[k].kind = "dict" =>
               d.val[k].kind = "dict" /\ ShapesMatch(d.val[k], u.val[k])
        /\ u.val[k].kind = "list" => d.val[k].kind = "list"

\* r is d merged with u: mappings of u merged key-wise, recursively; lists of
\* u appended after the list of d; other values of u overwrite; keys that u
\* does not mention keep the value of d
RECURSIVE MergeOf(_, _, _)
MergeOf(r, d, u) ==
    /\ r.kind = "dict"
    /\ DOMAIN r.val = DOMAIN d.val \cup DOMAIN u.val
    /\ \A k \in DOMAIN r.val :
           IF k \notin DOMAIN u.val THEN r.val[k] = d.val[k]
           ELSE IF u.val[k].kind = "dict"
           THEN MergeOf(r.val[k], Get(d, k, PyDict(EmptyDict)), u.val[k])
           ELSE IF u.val[k].kind = "list"
           THEN r.val[k] = PyList(Get(d, k, PyList(<<>>)).val \o u.val[k].val)
           ELSE r.val[k] = u.val[k]

\* C9: deep_update(d, u), for d and u of matching shapes, returns d with the
\* mappings of u merged key-wise recursively, the lists of u appended after
\* the lists of d and the other keys of u overwritten; every key of d, at any
\* depth, that u does not mention keeps its value.
C9_DeepMergeLaw ==
    (pc = "updated" /\ ShapesMatch(upd_d, upd_u)) =>
        /\ upd_result.kind # "raise"
        /\ MergeOf(upd_result, upd_d, upd_u)

\* {a: {a: 1, b: [1]}} was merged with {a: {b: [2]}, b: 2}: the nested value
\* a.a is kept, the nested list a.b is extended, the key b is new
C9_Witness ==
    /\ pc = "updated"
    /\ upd_d = PyDict("a" :> PyDict(("a" :> PyScalar(1)) @@ ("b" :> PyList(<<1>>))))
    /\ upd_u = PyDict(("a" :> PyDict("b" :> PyList(<<2>>))) @@ ("b" :> PyScalar(2)))
    /\ upd_result = PyDict(("a" :> PyDict(("a" :> PyScalar(1)) @@ ("b" :> PyList(<<1, 2>>))))
                           @@ ("b" :> PyScalar(2)))

(***************************************************************************)
(* Annotating one changed file: AnnotatedPatchedFile(patched_file) and its *)
(* process(), one hunk after the other (annotate_single_diff lines         *)
(* 503-504).                                                               *)
(***************************************************************************)
Construct ==
    /\ pc = "construct"
    /\ apf' = AnnotatedPatchedFileInit(patched_file)
    /\ pc' = "process"
    /\ UNCHANGED <<patched_file, hunk_no, hunk_data, hunk_outputs, lex_calls,
                   callback_calls, configVars, lexer_cuts, realignVars, fillVars,
                   classifyVars, updateVars, batchVars>>

\* one pass of the loop of AnnotatedPatchedFile.process (lines 310-312)
ProcessHunk ==
    /\ pc = "process"
    /\ hunk_no < Len(patched_file.hunks)
    /\ LET hunk   == patched_file.hunks[hunk_no + 1]
           result == HunkProcess(HunkSelf(apf, line_callback, lexer_cuts), hunk,
                                 PURPOSE_TO_ANNOTATION)
       IN  /\ hunk_data' = result.patch_data
           /\ lex_calls' = result.lexed
           /\ callback_calls' = result.called
           /\ hunk_outputs' = Append(hunk_outputs, result.patch_data)
           /\ apf' = [apf EXCEPT !.patch_data = deep_update(@, result.patch_data)]
    /\ hunk_no' = hunk_no + 1
    /\ UNCHANGED <<pc, patched_file, configVars, lexer_cuts, realignVars, fillVars,
                   classifyVars, updateVars, batchVars>>

\* line 314: return self.patch_data
ReturnPatchData ==
    /\ pc = "process"
    /\ hunk_no = Len(patched_file.hunks)
    /\ pc' = "processed"
    /\ UNCHANGED <<annotateVars, configVars, lexer_cuts, realignVars, fillVars,
                   classifyVars, updateVars, batchVars>>

AnnotateNext == Construct \/ ProcessHunk \/ ReturnPatchData

AnnotateStart ==
    /\ pc = "construct"
    /\ apf = NoAnnotatedFile
    /\ hunk_no = 0
    /\ hunk_data = PyDict(EmptyDict)
    /\ hunk_outputs = <<>>
    /\ lex_calls = {}
    /\ callback_calls = {}
    /\ PURPOSE_TO_ANNOTATION = ("documentation" :> "documentation")
    /\ OptionsIdle
    /\ RealignIdle
    /\ FillIdle
    /\ ClassifyIdle
    /\ UpdateIdle
    /\ BatchIdle

(***************************************************************************)
(* The hunks of the model.  A line of a hunk ends with LF; the last line   *)
(* of a diff file may lack it, so the last line of a hunk may.             *)
(***************************************************************************)
HunkLineValue == {<<"a", LF>>, <<"#", LF>>, <<" ", LF>>}

HunkLine ==
    {[line_type |-> t, value |-> v] :
        t \in {LINE_TYPE_ADDED, LINE_TYPE_REMOVED, LINE_TYPE_CONTEXT},
        v \in HunkLineValue}
    \cup {[line_type |-> LINE_TYPE_NO_NEWLINE, value |-> <<" ", "a", LF>>]}

\* the hunk whose last line lost its LF
Unterminated(hunk) ==
    [hunk EXCEPT ![Len(hunk)].value = SubSeq(@, 1, Len(@) - 1)]

Hunks(lines, n) ==
    SeqsUpTo(lines, n) \cup {Unterminated(h) : h \in SeqsUpTo(lines, n) \ {<<>>}}

ModifiedCode == [source_file |-> <<"a/", "main.py">>, target_file |-> <<"b/", "main.py">>]
ModifiedDoc == [source_file |-> <<"a/", "README.rst">>, target_file |-> <<"b/", "README.rst">>]
NewDoc == [source_file |-> DevNull, target_file |-> <<"b/", "README.rst">>]
RenamedCode == [source_file |-> <<"a/", "main.py">>, target_file |-> <<"b/", "README.rst">>]

\* the lexers of the annotator runs: the plain-text fallback (one token for
\* the whole image) and a lexer that ends a token at each of the first
\* MaxCut offsets
HunkLexer == {{}, 1..MaxCut}

\* one changed file with one hunk, any callback of the model
HunkInit ==
    /\ AnnotateStart
    /\ \E f \in {ModifiedCode, ModifiedDoc, RenamedCode},
          h \in Hunks(HunkLine, MaxHunkLines) :
           patched_file = [source_file |-> f.source_file,
                           target_file |-> f.target_file,
                           hunks       |-> <<h>>]
    /\ lexer_cuts \in HunkLexer
    /\ line_callback \in LineCallbacks

SpecHunk == HunkInit /\ [][AnnotateNext]_vars

\* the hunk processed last, and what decides its mode
LastHunk == patched_file.hunks[hunk_no]
FilePurpose == HunkSelf(apf, line_callback, lexer_cuts).file_purpose
ForcedMode == FilePurpose \in DOMAIN PURPOSE_TO_ANNOTATION
HunkDone == pc = "process" /\ hunk_no = 1

\* the list patch_data[file][side], empty when there is none
Bucket(patch_data, file, side) ==
    IF file \in DOMAIN patch_data.val /\ side \in DOMAIN patch_data.val[file].val
    THEN patch_data.val[file].val[side].val
    ELSE <<>>

\* the annotations the last hunk added for a side: "+" is filed under the
\* target path, "-" under the source path
Emitted(side) ==
    Bucket(hunk_data, IF side = "+" THEN apf.target_file ELSE apf.source_file, side)

\* the zero-based positions of the lines of a type, in hunk order
RECURSIVE PositionsFrom(_, _, _)
PositionsFrom(hunk, i, type) ==
    IF i >= Len(hunk) THEN <<>>
    ELSE (IF hunk[i + 1].line_type = type THEN <<i>> ELSE <<>>)
         \o PositionsFrom(hunk, i + 1, type)

Positions(hunk, type) == PositionsFrom(hunk, 0, type)

Ids(annotations) == [j \in 1..Len(annotations) |-> annotations[j].id]

\* hunk_data holds nothing but the "+" list of the target and the "-" list
\* of the source
OnlyChangedLines ==
    \A f \in DOMAIN hunk_data.val : \A side \in DOMAIN hunk_data.val[f].val :
        \/ side = "+" /\ f = apf.target_file
        \/ side = "-" /\ f = apf.source_file

\* what the override rule gives for a token list
Overridden(callback, tokens) ==
    IF callback # None /\ CallLineCallback(callback, tokens) # None
    THEN CallLineCallback(callback, tokens)
    ELSE IF line_is_comment(tokens) THEN "documentation" ELSE "code"

\* C5 (as claimed): in lexed mode every changed line has its token list passed
\* to the configured callback and gets a type: the callback's string when it
\* returns one, else the default classifier's verdict; without a callback the
\* default classifier decides every changed line.
C5_OverrideEveryChangedLine ==
    (HunkDone /\ ~ForcedMode) =>
        \A side \in {"+", "-"} :
            /\ Ids(Emitted(side)) = Positions(LastHunk, side)
            /\ \A j \in DOMAIN Emitted(side) :
                   LET annotation == Emitted(side)[j]
                   IN  /\ TokensText(annotation.tokens) = LastHunk[annotation.id + 1].value
                       /\ annotation.type = Overridden(line_callback, annotation.tokens)
                       /\ line_callback # None => annotation.tokens \in callback_calls

\* the part of C5 the code does keep: every annotation that lexed mode emits
\* has the type the override rule gives for its tokens
OverrideOnEmitted ==
    (HunkDone /\ ~ForcedMode) =>
        \A side \in {"+", "-"} : \A j \in DOMAIN Emitted(side) :
            /\ Emitted(side)[j].type = Overridden(line_callback, Emitted(side)[j].tokens)
            /\ line_callback # None => Emitted(side)[j].tokens \in callback_calls

\* C6: in forced mode the hunk yields exactly one annotation per added and per
\* removed line and none for other lines, in hunk order, with the mapped
\* annotation as type, the line's index as id and one synthetic token holding
\* the raw line text; neither the lexer nor the callback is consulted.
C6_ForcedMode ==
    (HunkDone /\ ForcedMode) =>
        /\ OnlyChangedLines
        /\ \A side \in {"+", "-"} :
               /\ Ids(Emitted(side)) = Positions(LastHunk, side)
               /\ \A j \in DOMAIN Emitted(side) :
                      LET annotation == Emitted(side)[j]
                      IN  /\ annotation.type = PURPOSE_TO_ANNOTATION[FilePurpose]
                          /\ annotation.tokens =
                                 <<<<0, "Token.Text", LastHunk[annotation.id + 1].value>>>>
        /\ lex_calls = {}
        /\ callback_calls = {}

\* a documentation file with a callback configured: a context line and an
\* added line of code were processed, and the added line got one annotation
C6_Witness ==
    /\ HunkDone
    /\ ForcedMode
    /\ line_callback = "any"
    /\ Len(LastHunk) = 2
    /\ LastHunk[1].line_type = LINE_TYPE_CONTEXT
    /\ LastHunk[2] = [line_type |-> LINE_TYPE_ADDED, value |-> <<"a", LF>>]
    /\ Ids(Emitted("+")) = <<1>>
    /\ Emitted("+")[1].type = "documentation"

\* C7 (as claimed): in lexed mode, whether or not the last line of an image
\* ends with LF, the hunk yields exactly one annotation per added line in "+"
\* and per removed line in "-", none for other lines, each with the position
\* of its line in the hunk as id.
C7_LexedOnePerChangedLine ==
    (HunkDone /\ ~ForcedMode) =>
        /\ OnlyChangedLines
        /\ \A side \in {"+", "-"} : Ids(Emitted(side)) = Positions(LastHunk, side)

\* C8: the token texts of every emitted annotation, of either mode,
\* concatenate to the raw text of the hunk line the annotation's id names,
\* and that line is of the annotation's side.
C8_TokensReproduceLine ==
    HunkDone =>
        \A side \in {"+", "-"} : \A j \in DOMAIN Emitted(side) :
            LET annotation == Emitted(side)[j]
            IN  /\ annotation.id \in 0..(Len(LastHunk) - 1)
                /\ LastHunk[annotation.id + 1].line_type = side
                /\ TokensText(annotation.tokens) = LastHunk[annotation.id + 1].value

\* lexed mode with the plain-text lexer: one token spans a context line and
\* an added line of another text, and the added line's annotation holds the
\* added line only
C8_Witness ==
    /\ HunkDone
    /\ ~ForcedMode
    /\ lexer_cuts = {}
    /\ LastHunk = <<[line_type |-> LINE_TYPE_CONTEXT, value |-> <<"a", LF>>],
                    [line_type |-> LINE_TYPE_ADDED, value |-> <<"#", LF>>]>>
    /\ Len(Emitted("+")) = 1
    /\ TokensText(Emitted("+")[1].tokens) = <<"#", LF>>

(***************************************************************************)
(* One changed file with several hunks.                                    *)
(***************************************************************************)
Added(value) == [line_type |-> LINE_TYPE_ADDED, value |-> value]
Removed(value) == [line_type |-> LINE_TYPE_REMOVED, value |-> value]
Context(value) == [line_type |-> LINE_TYPE_CONTEXT, value |-> value]

FileHunk ==
    {<<Context(<<"a", LF>>), Removed(<<"a", LF>>), Added(<<"#", LF>>)>>,
     <<Added(<<"a", LF>>)>>,
     <<Removed(<<"#", LF>>), Context(<<" ", LF>>)>>,
     <<Added(<<" ", LF>>), Added(<<"a", LF>>)>>}

FileInit ==
    /\ AnnotateStart
    /\ \E f \in {ModifiedCode, ModifiedDoc, NewDoc, RenamedCode},
          hs \in SeqsUpTo(FileHunk, MaxHunks) :
           patched_file = [source_file |-> f.source_file,
                           target_file |-> f.target_file,
                           hunks       |-> hs]
    /\ lexer_cuts \in HunkLexer
    /\ line_callback = None

SpecFile == FileInit /\ [][AnnotateNext]_vars

\* the lists of a side of the outputs of the hunks, concatenated in order
RECURSIVE ConcatBuckets(_, _, _)
ConcatBuckets(outputs, file, side) ==
    IF outputs = <<>> THEN <<>>
    ELSE Bucket(Head(outputs), file, side) \o ConcatBuckets(Tail(outputs), file, side)

\* C10: while and after AnnotatedPatchedFile.process runs, each "+" and "-"
\* list of the file's patch_data is the concatenation, in hunk order, of the
\* lists the hunks processed so far produced (so no earlier annotation is
\* lost or reordered by a later merge), and the language, type and purpose
\* seeded at construction are unchanged.
C10_HunkMergeOrder ==
    pc \in {"process", "processed"} =>
        /\ apf.patch_data.kind = "dict"
        /\ DOMAIN apf.patch_data.val = {apf.source_file, apf.target_file}
        /\ \A f \in DOMAIN apf.patch_data.val :
               /\ \A side \in {"+", "-"} :
                      Bucket(apf.patch_data, f, side) = ConcatBuckets(hunk_outputs, f, side)
               /\ \A key \in {"language", "type", "purpose"} :
                      /\ key \in DOMAIN apf.patch_data.val[f].val
                      /\ apf.patch_data.val[f].val[key] = LanguagesAnnotate(f).val[key]

\* two hunks were merged and each of them added lines to the target's "+"
C10_Witness ==
    /\ pc = "processed"
    /\ hunk_no = 2
    /\ Bucket(hunk_outputs[1], apf.target_file, "+") # <<>>
    /\ Bucket(hunk_outputs[2], apf.target_file, "+") # <<>>
    /\ Len(Bucket(apf.patch_data, apf.target_file, "+")) >= 2

(***************************************************************************)
(* annotate.py: annotate_single_diff.  diff_file is what the path holds:   *)
(* the exception unidiff.PatchSet.from_filename raises for it ("None" when *)
(* it parses), whether the path is a directory, and the parsed patch set,  *)
(* a sequence of patched files.  The call gives the record [result,        *)
(* stderr, stdout]: what it returns or raises and what it prints.          *)
(***************************************************************************)
RaisedEx(ex) == [kind |-> "raise", val |-> ex]

UnitIdle ==
    /\ RealignIdle
    /\ lexer_cuts = {}
    /\ FillIdle
    /\ ClassifyIdle
    /\ UpdateIdle
    /\ ConfigDefault
    /\ AnnotateIdle

\* AnnotatedPatchedFile.process: the loop over the hunks and the return
RECURSIVE ProcessLoop(_, _, _, _, _)
ProcessLoop(file, hunks, callback, cuts, purpose_to_annotation) ==
    IF hunks = <<>> THEN file.patch_data
    ELSE IF HunkRaises(HunkSelf(file, callback, cuts), Head(hunks),
                       purpose_to_annotation)
    THEN RaisedEx("ValueError")
    ELSE LET result == HunkProcess(HunkSelf(file, callback, cuts), Head(hunks),
                                   purpose_to_annotation)
             merged == deep_update(file.patch_data, result.patch_data)
         IN  IF merged.kind = "raise" THEN merged
             ELSE ProcessLoop([file EXCEPT !.patch_data = merged], Tail(hunks),
                              callback, cuts, purpose_to_annotation)

\* AnnotatedPatchedFile(patched_file).process()
FileProcess(pf, callback, cuts, purpose_to_annotation) ==
    ProcessLoop(AnnotatedPatchedFileInit(pf), pf.hunks, callback, cuts,
                purpose_to_annotation)

\* lines 501-511: the loop over the patch set; an exception ends the loop,
\* is reported and what was gathered so far is returned
RECURSIVE PatchSetLoop(_, _, _, _, _)
PatchSetLoop(patch_set, patch_annotations, callback, cuts, purpose_to_annotation) ==
    IF patch_set = <<>>
    THEN [result |-> patch_annotations, stderr |-> <<>>, stdout |-> <<>>]
    ELSE LET processed == FileProcess(Head(patch_set), callback, cuts,
                                      purpose_to_annotation)
         IN  IF processed.kind = "raise"
             THEN [result |-> patch_annotations, stderr |-> <<"traceback">>,
                   stdout |-> <<"Error processing patch file">>]
             ELSE PatchSetLoop(Tail(patch_set),
                               PyDict(processed.val @@ patch_annotations.val),
                               callback, cuts, purpose_to_annotation)

\* the FileNotFoundError handler reporting on sys.stdout
MissingFile_stdout(missing_ok_) ==
    [result |-> IF ~missing_ok_ THEN RaisedEx("FileNotFoundError")
                ELSE PyDict(EmptyDict),
     stderr |-> <<>>,
     stdout |-> <<"No such patch file">>]

\* lines 478-484: except FileNotFoundError
MissingFile(missing_ok_) ==
    [result |-> IF ~missing_ok_ THEN RaisedEx("FileNotFoundError")
                ELSE PyDict(EmptyDict),
     stderr |-> <<"No such patch file">>,
     stdout |-> <<>>]

\* lines 486-494: except PermissionError
DeniedFile(is_dir, missing_ok_) ==
    [result |-> IF ~missing_ok_ THEN RaisedEx("PermissionError")
                ELSE PyDict(EmptyDict),
     stderr |-> <<>>,
     stdout |-> IF is_dir THEN <<"Path points to directory, not patch file">>
                ELSE <<"Permission denied to read patch file">>]

\* the except Exception handler with the raise left in
UnparsedFile_raise == [result |-> RaisedEx("Exception"), stderr |-> <<>>,
                       stdout |-> <<"Error parsing patch file">>]

\* lines 496-499: except Exception
UnparsedFile == [result |-> PyDict(EmptyDict), stderr |-> <<>>,
                 stdout |-> <<"Error parsing patch file">>]

annotate_single_diff(file, missing_ok_, callback, cuts, purpose_to_annotation) ==
    CASE file.raises = "FileNotFoundError" -> MissingFile(missing_ok_)
      [] file.raises = "PermissionError"   -> DeniedFile(file.is_dir, missing_ok_)
      [] file.raises = "Exception"         -> UnparsedFile
      [] OTHER -> PatchSetLoop(file.patch_set, PyDict(EmptyDict), callback, cuts,
                               purpose_to_annotation)

(***************************************************************************)
(* One call of annotate_single_diff.                                       *)
(***************************************************************************)
MaxPatchedFiles == 2

PatchedFiles ==
    {[source_file |-> f.source_file, target_file |-> f.target_file, hunks |-> hs] :
        f \in {ModifiedCode, ModifiedDoc, NewDoc, RenamedCode},
        hs \in {<<>>,
                <<<<Context(<<"a", LF>>), Removed(<<"a", LF>>), Added(<<"#", LF>>)>>>>,
                <<<<Added(<<" ", LF>>), Added(<<"a", LF>>)>>>>}}

Parsed(patch_set) == [raises |-> "None", is_dir |-> FALSE, patch_set |-> patch_set]
Failing(ex, is_dir) == [raises |-> ex, is_dir |-> is_dir, patch_set |-> <<>>]

DiffFiles ==
    {Parsed(ps) : ps \in SeqsUpTo(PatchedFiles, MaxPatchedFiles)}
    \cup {Failing("FileNotFoundError", FALSE), Failing("PermissionError", TRUE),
          Failing("PermissionError", FALSE), Failing("Exception", FALSE),
          Failing("Exception", TRUE)}

SingleDiffInit ==
    /\ pc = "annotate_single_diff"
    /\ diff_file \in DiffFiles
    /\ missing_ok \in BOOLEAN
    /\ diff_result = PyDict(EmptyDict)
    /\ stderr = <<>>
    /\ stdout = <<>>
    /\ BugIdle
    /\ GatherIdle
    /\ UnitIdle

AnnotateSingleDiff ==
    /\ pc = "annotate_single_diff"
    /\ LET call == annotate_single_diff(diff_file, missing_ok, line_callback,
                                        lexer_cuts, PURPOSE_TO_ANNOTATION)
       IN  /\ diff_result' = call.result
           /\ stderr' = stderr \o call.stderr
           /\ stdout' = stdout \o call.stdout
    /\ pc' = "diff_done"
    /\ UNCHANGED <<diff_file, missing_ok, bugVars, gatherVars, unitVars>>

SingleDiffNext == AnnotateSingleDiff

SpecSingleDiff == SingleDiffInit /\ [][SingleDiffNext]_vars

\* C11: for a diff path that does not exist, annotate_single_diff raises the
\* not-found error when missing_ok is false (the default) and returns the
\* empty annotation when missing_ok is true, and in both cases reports the
\* condition on the error channel (sys.stderr).
C11_MissingDiffFile ==
    (pc = "diff_done" /\ diff_file.raises = "FileNotFoundError") =>
        /\ ~missing_ok => diff_result = RaisedEx("FileNotFoundError")
        /\ missing_ok => diff_result = PyDict(EmptyDict)
        /\ stderr = <<"No such patch file">>

\* the call on a missing path with missing_ok true returned the empty
\* annotation and wrote to the error channel
C11_Witness ==
    /\ pc = "diff_done"
    /\ diff_file.raises = "FileNotFoundError"
    /\ missing_ok
    /\ diff_result = PyDict(EmptyDict)
    /\ stderr # <<>>

(***************************************************************************)
(* annotate.py: Bug._get_patch and Bug._get_patches_from_dir.  A patch     *)
(* file of the directory is the record [name, file], file as diff_file.    *)
(***************************************************************************)
PatchName == {"1.diff", "2.diff", "1...2.diff"}

\* "..." in str(patch_path)
HasEllipsis(name) == name \in {"1...2.diff", "1...2.json"}

\* lines 635-642
get_patch(patch_file, callback, cuts, purpose_to_annotation) ==
    IF HasEllipsis(patch_file.name)
    THEN [result |-> PyDict(EmptyDict), stderr |-> <<>>, stdout |-> <<>>]
    ELSE annotate_single_diff(patch_file.file, FALSE, callback, cuts,
                              purpose_to_annotation)

MaxPatches == 2

BugFile ==
    {Failing("Exception", FALSE),
     Failing("PermissionError", FALSE),
     Parsed(<<>>),
     Parsed(<<[source_file |-> ModifiedCode.source_file,
               target_file |-> ModifiedCode.target_file,
               hunks |-> <<<<Removed(<<"a", LF>>), Added(<<"#", LF>>)>>>>]>>),
     Parsed(<<[source_file |-> NewDoc.source_file,
               target_file |-> NewDoc.target_file,
               hunks |-> <<<<Added(<<"a", LF>>)>>>>],
              [source_file |-> ModifiedCode.source_file,
               target_file |-> ModifiedCode.target_file,
               hunks |-> <<<<Added(<<" ", LF>>)>>, <<Removed(<<"a", LF>>)>>>>]>>)}

\* the directories: patch files of distinct names, in any glob order
PatchDirs ==
    {d \in SeqsUpTo([name : PatchName, file : BugFile], MaxPatches) :
        \A i, j \in DOMAIN d : i # j => d[i].name # d[j].name}

BugInit ==
    /\ pc = "get_patches"
    /\ patches_dir \in PatchDirs
    /\ patch_no = 0
    /\ patches_data = EmptyDict
    /\ DiffIdle
    /\ GatherIdle
    /\ UnitIdle

\* lines 653-655: one pass of the loop; an exception of _get_patch leaves
\* the method
GetPatch ==
    /\ pc = "get_patches"
    /\ patch_no < Len(patches_dir)
    /\ LET patch_file == patches_dir[patch_no + 1]
           call       == get_patch(patch_file, line_callback, lexer_cuts,
                                   PURPOSE_TO_ANNOTATION)
       IN  /\ stderr' = stderr \o call.stderr
           /\ stdout' = stdout \o call.stdout
           /\ IF call.result.kind = "raise"
              THEN /\ pc' = "patches_raised"
                   /\ UNCHANGED <<patch_no, patches_data>>
              ELSE /\ pc' = pc
                   /\ patch_no' = patch_no + 1
                   /\ patches_data' = (patch_file.name :> call.result) @@ patches_data
    /\ UNCHANGED <<patches_dir, diff_file, missing_ok, diff_result, gatherVars,
                   unitVars>>

\* line 657: return patches_data
ReturnPatches ==
    /\ pc = "get_patches"
    /\ patch_no = Len(patches_dir)
    /\ pc' = "patches_done"
    /\ UNCHANGED <<bugVars, diffVars, gatherVars, unitVars>>

BugNext == GetPatch \/ ReturnPatches

SpecBug == BugInit /\ [][BugNext]_vars

\* the annotation of a patch file that parses
Annotated(file) ==
    PatchSetLoop(file.patch_set, PyDict(EmptyDict), line_callback, lexer_cuts,
                 PURPOSE_TO_ANNOTATION).result

PyStr(s) == [kind |-> "str", val |-> s]

\* the values for which the test "'purpose' not in value" raises TypeError:
\* a number and null are no containers
NotIterable(value) == value.kind \in {"scalar", "None"}

\* 'purpose' in value: a key of a dict, an element of a list, a substring of
\* a string (of the strings of the model only "purpose" has it)
ContainsPurpose(value) ==
    CASE value.kind = "dict" -> "purpose" \in DOMAIN value.val
      [] value.kind = "list" -> \E i \in DOMAIN value.val : value.val[i] = "purpose"
      [] value.kind = "str"  -> value.val = "purpose"

\* lines 79-91, data_format V1_5
is_commit_metadata(key, value) ==
    key = "commit_metadata" /\ ~ContainsPurpose(value)

\* lines 94-106, data_format V1_5: not isinstance(value, dict)
is_diff_metadata(key, value) == value.kind # "dict"

\* lines 109-115
maybe_changes(key, value) ==
    IF key = "commit_metadata" /\ NotIterable(value)
    THEN RaisedEx("TypeError")
    ELSE IF is_commit_metadata(key, value) \/ is_diff_metadata(key, value)
         THEN PyNone ELSE value

\* a call of _maybe_changes in the loop over data.items() raises
ChangesRaise(data) ==
    \E key \in DOMAIN data.val : maybe_changes(key, data.val[key]).kind = "raise"

\* counter[key], 0 for a missing key
CounterGet(counter, key) == IF key \in DOMAIN counter THEN counter[key] ELSE 0

\* counter[key] += n
CounterInc(counter, key, n) == (key :> (CounterGet(counter, key) + n)) @@ counter

\* dict.update in place of Counter.__add__: the count of c2 replaces that of c1
CounterAdd_update(c1, c2) == c2 @@ c1

\* Counter.__add__: counts are added, only positive counts are kept
CounterAdd(c1, c2) ==
    [key \in {k \in DOMAIN c1 \cup DOMAIN c2 : CounterGet(c1, k) + CounterGet(c2, k) > 0}
        |-> CounterGet(c1, key) + CounterGet(c2, key)]

\* for line in lines: counter[line[field]] += 1
RECURSIVE CountLines(_, _, _)
CountLines(counter, lines, field) ==
    IF lines = <<>> THEN counter
    ELSE CountLines(CounterInc(counter, Head(lines)[field], 1), Tail(lines), field)

\* lines 121-126
PurposeCounterResults(processed_files, hunk_purposes, added_line_purposes, removed_line_purposes) ==
    [processed_files       |-> processed_files,
     hunk_purposes         |-> hunk_purposes,
     added_line_purposes   |-> added_line_purposes,
     removed_line_purposes |-> removed_line_purposes]

\* the + that keeps the processed files of other only
pcr_add_last_files(self, other) ==
    PurposeCounterResults(other.processed_files,
                          CounterAdd(self.hunk_purposes, other.hunk_purposes),
                          CounterAdd(self.added_line_purposes, other.added_line_purposes),
                          CounterAdd(self.removed_line_purposes, other.removed_line_purposes))

\* lines 128-135: PurposeCounterResults.__add__
pcr_add(self, other) ==
    PurposeCounterResults(self.processed_files \o other.processed_files,
                          CounterAdd(self.hunk_purposes, other.hunk_purposes),
                          CounterAdd(self.added_line_purposes, other.added_line_purposes),
                          CounterAdd(self.removed_line_purposes, other.removed_line_purposes))

\* lines 151-158: PurposeCounterResults.default
pcr_default == PurposeCounterResults(<<>>, EmptyDict, EmptyDict, EmptyDict)

\* lines 173-190: the loop over data.items()
RECURSIVE CreateLoop(_, _, _)
CreateLoop(data, keys, result) ==
    IF keys = {} THEN result
    ELSE LET change_file == CHOOSE k \in keys : TRUE
             change_data == maybe_changes(change_file, data.val[change_file])
         IN  IF change_data.kind = "None"
             THEN CreateLoop(data, keys \ {change_file}, result)
             ELSE CreateLoop(data, keys \ {change_file},
                      [result EXCEPT
                          !.hunk_purposes =
                              CounterInc(@, change_data.val["purpose"].val, 1),
                          !.added_line_purposes =
                              IF "+" \in DOMAIN change_data.val
                              THEN CountLines(@, change_data.val["+"].val, "purpose")
                              ELSE @,
                          !.removed_line_purposes =
                              IF "-" \in DOMAIN change_data.val
                              THEN CountLines(@, change_data.val["-"].val, "purpose")
                              ELSE @])

\* create with the V2 rule for commit metadata: the key alone decides
pcr_create_v2(file_path, data) ==
    CreateLoop(data, DOMAIN data.val \ {"commit_metadata"},
               PurposeCounterResults(<<file_path>>, EmptyDict, EmptyDict, EmptyDict))

\* lines 160-191: PurposeCounterResults.create
pcr_create(file_path, data) ==
    IF ChangesRaise(data) THEN RaisedEx("TypeError")
    ELSE CreateLoop(data, DOMAIN data.val,
                    PurposeCounterResults(<<file_path>>, EmptyDict, EmptyDict, EmptyDict))

\* lines 364-395: map_diff_to_purpose_dict
map_diff_to_purpose_dict(diff_file_path, data) ==
    [change_file \in {k \in DOMAIN data.val :
                         maybe_changes(k, data.val[k]).kind # "None"}
        |-> <<data.val[change_file].val["purpose"].val>>]

(***************************************************************************)
(* The documents of the model.                                             *)
(***************************************************************************)
Line(type, purpose) == [id |-> 0, type |-> type, purpose |-> purpose, tokens |-> <<>>]

\* a changed file; sides maps "+" and "-", when present, to their lines
FileRecord(language, type, purpose, sides) ==
    PyDict(("language" :> PyScalar(language)) @@ ("type" :> PyScalar(type))
           @@ ("purpose" :> PyScalar(purpose))
           @@ [side \in DOMAIN sides |-> PyList(sides[side])])

CommitMetadata == PyDict(("id" :> PyScalar("e54746")) @@ ("parents" :> PyList(<<"93b615">>)))

DocCode ==
    PyDict("main.py" :> FileRecord("Python", "programming", "programming",
               ("+" :> <<Line("code", "programming")>>)
               @@ ("-" :> <<Line("code", "programming"),
                            Line("documentation", "programming")>>)))

DocProse ==
    PyDict(("commit_metadata" :> CommitMetadata)
           @@ ("n_files" :> PyScalar(1))
           @@ ("README.rst" :> FileRecord("reStructuredText", "prose", "documentation",
                   "+" :> <<Line("documentation", "documentation")>>)))

(***************************************************************************)
(* gather_data.py: AnnotatedBugDataset, AnnotatedBug, AnnotatedFile.  The  *)
(* dataset on disk is [readable, bugs]; a bug directory is [listable,      *)
(* annotations], listable telling whether its annotations directory can be *)
(* listed; an annotation file is [name, valid, data], valid telling        *)
(* whether json.load accepts it.  The path of an annotation file is the    *)
(* pair <<bug_id, name>>.                                                  *)
(***************************************************************************)
MaxBugs == 2

BugIds == <<"bug1", "bug2", "bug3", "bug4">>

ValidJson(name, data) == [name |-> name, valid |-> TRUE, data |-> data]
InvalidJson(name) == [name |-> name, valid |-> FALSE, data |-> PyDict(EmptyDict)]

BugDirs ==
    {[listable |-> FALSE, annotations |-> <<>>],
     [listable |-> TRUE, annotations |-> <<>>],
     [listable |-> TRUE, annotations |-> <<ValidJson("1.json", DocCode)>>],
     [listable |-> TRUE, annotations |-> <<ValidJson("2.json", DocProse)>>],
     [listable |-> TRUE, annotations |-> <<InvalidJson("1.json"),
                                           ValidJson("2.json", DocProse)>>],
     [listable |-> TRUE, annotations |-> <<ValidJson("1.json", DocCode),
                                           ValidJson("1...2.json", DocProse),
                                           ValidJson("2.json", DocProse)>>]}

GatherMethods == {"gather_data", "gather_data_dict", "gather_data_list"}

\* the empty combined_results of a method
EmptyResults(method_) ==
    IF method_ = "gather_data" THEN pcr_default
    ELSE IF method_ = "gather_data_dict" THEN EmptyDict
    ELSE <<>>

DatasetInit ==
    /\ pc = "dataset_init"
    /\ \E readable \in BOOLEAN, dirs \in SeqsUpTo(BugDirs, MaxBugs) :
           dataset = [readable |-> readable, bugs |-> dirs]
    /\ method \in GatherMethods
    /\ bugs = <<>>
    /\ bug_no = 0
    /\ annotation_no = 0
    /\ bug_results = EmptyDict
    /\ combined_results = EmptyDict
    /\ MapperIdle
    /\ DiffIdle
    /\ BugIdle
    /\ UnitIdle

\* lines 277-289: AnnotatedBugDataset.__init__
ConstructDataset ==
    /\ pc = "dataset_init"
    /\ IF dataset.readable
       THEN /\ bugs' = [i \in 1..Len(dataset.bugs) |-> BugIds[i]]
            /\ UNCHANGED stdout
       ELSE /\ bugs' = <<>>
            /\ stdout' = Append(stdout, "Error in AnnotatedBugDataset")
    /\ pc' = "dataset_start"
    /\ UNCHANGED <<dataset, method, bug_no, annotation_no, bug_results,
                   combined_results, mapperVars, diff_file, missing_ok, diff_result,
                   stderr, bugVars, unitVars>>

\* lines 304-306, 328, 348: combined_results = datastructure_generator()
StartGather ==
    /\ pc = "dataset_start"
    /\ combined_results' = EmptyResults(method)
    /\ stdout' = IF method = "gather_data"
                 THEN Append(stdout, "Gathering data from bugs/patches") ELSE stdout
    /\ pc' = "dataset_loop"
    /\ UNCHANGED <<dataset, method, bugs, bug_no, annotation_no, bug_results,
                   mapperVars, diff_file, missing_ok, diff_result, stderr, bugVars,
                   unitVars>>

\* lines 310-312: AnnotatedBug(bug_path) and the start of its gather_data.
\* When the annotations directory cannot be listed __init__ prints and
\* leaves self.annotations unset, and the loop over self.annotations raises
\* AttributeError.
EnterBug ==
    /\ pc = "dataset_loop"
    /\ bug_no < Len(bugs)
    /\ IF dataset.bugs[bug_no + 1].listable
       THEN /\ bug_results' = IF method = "gather_data" THEN pcr_default ELSE EmptyDict
            /\ annotation_no' = 0
            /\ pc' = "bug_loop"
            /\ UNCHANGED stdout
       ELSE /\ stdout' = Append(stdout, "Error in AnnotatedBug")
            /\ pc' = "gather_raised"
            /\ UNCHANGED <<bug_results, annotation_no>>
    /\ UNCHANGED <<dataset, method, bugs, bug_no, combined_results, mapperVars,
                   diff_file, missing_ok, diff_result, stderr, bugVars, unitVars>>

\* lines 246-252 and 264-270: one annotation of the bug; AnnotatedFile
\* .gather_data (lines 212-216) lets the exception of json.load through
GatherFile ==
    /\ pc = "bug_loop"
    /\ annotation_no < Len(dataset.bugs[bug_no + 1].annotations)
    /\ LET annotation == dataset.bugs[bug_no + 1].annotations[annotation_no + 1]
           file_path  == <<bugs[bug_no + 1], annotation.name>>
       IN  IF HasEllipsis(annotation.name)
           THEN /\ annotation_no' = annotation_no + 1
                /\ UNCHANGED <<pc, bug_results>>
           ELSE IF ~annotation.valid
           THEN /\ pc' = "gather_raised"
                /\ UNCHANGED <<annotation_no, bug_results>>
           ELSE /\ bug_results' =
                       IF method = "gather_data"
                       THEN pcr_add(bug_results, pcr_create(file_path, annotation.data))
                       ELSE (annotation.name :>
                                map_diff_to_purpose_dict(file_path, annotation.data))
                            @@ bug_results
                /\ annotation_no' = annotation_no + 1
                /\ UNCHANGED pc
    /\ UNCHANGED <<dataset, method, bugs, bug_no, combined_results, mapperVars,
                   diffVars, bugVars, unitVars>>

\* lines 352-358: the records of one bug, in the order of its annotations
RECURSIVE PatchRecords(_, _, _)
PatchRecords(bug_id, annotations, results) ==
    IF annotations = <<>> THEN <<>>
    ELSE (IF Head(annotations).name \in DOMAIN results
          THEN <<("bug_id" :> bug_id) @@ ("patch_id" :> Head(annotations).name)
                 @@ results[Head(annotations).name]>>
          ELSE <<>>)
         \o PatchRecords(bug_id, Tail(annotations), results)

\* lines 253 and 313, 271 and 334, 352-358: the bug is done, its results
\* are combined
LeaveBug ==
    /\ pc = "bug_loop"
    /\ annotation_no = Len(dataset.bugs[bug_no + 1].annotations)
    /\ combined_results' =
           IF method = "gather_data" THEN pcr_add(combined_results, bug_results)
           ELSE IF method = "gather_data_dict"
           THEN (bugs[bug_no + 1] :> bug_results) @@ combined_results
           ELSE combined_results
                \o PatchRecords(bugs[bug_no + 1], dataset.bugs[bug_no + 1].annotations,
                                bug_results)
    /\ bug_no' = bug_no + 1
    /\ pc' = "dataset_loop"
    /\ UNCHANGED <<dataset, method, bugs, annotation_no, bug_results, mapperVars,
                   diffVars, bugVars, unitVars>>

\* lines 315, 335, 360: return combined_results
ReturnGather ==
    /\ pc = "dataset_loop"
    /\ bug_no = Len(bugs)
    /\ pc' = "gathered"
    /\ UNCHANGED <<datasetVars, mapperVars, diffVars, bugVars, unitVars>>

DatasetNext ==
    ConstructDataset \/ StartGather \/ EnterBug \/ GatherFile \/ LeaveBug \/ ReturnGather

SpecDataset == DatasetInit /\ [][DatasetNext]_vars

\* C13 (as claimed): while a dataset is aggregated by gather_data,
\* gather_data_dict or gather_data_list, a bug whose annotations directory
\* cannot be listed and an annotation file that is not valid JSON are
\* reported and skipped, the aggregation goes on with the remaining files
\* and bugs and returns a result: no exception leaves the method.
C13_AggregationFailureIsolated == pc # "gather_raised"

(***************************************************************************)
(* PurposeCounterResults on documents: create for each document of         *)
(* gather_docs, then the sums the monoid laws are about.                   *)
(***************************************************************************)
MaxLines == 2

DocLine == {Line("code", "programming"), Line("documentation", "programming"),
            Line("documentation", "documentation")}

\* the "+" and "-" of a changed file: each absent or a list of lines
Sides(n) ==
    UNION {[present -> SeqsUpTo(DocLine, n)] : present \in SUBSET {"+", "-"}}

MetadataFile ==
    FileRecord("unknown", "other", "other", "+" :> <<Line("code", "other")>>)

\* documents with main.py (or not), README.rst (or not), an entry
\* 'commit_metadata' that is commit metadata or a changed file (or none) and
\* a size metric (or not)
Docs(n) ==
    {PyDict(main @@ readme @@ metadata @@ metric) :
        main \in {EmptyDict}
                 \cup {"main.py" :> FileRecord("Python", "programming", "programming", sd) :
                          sd \in Sides(n)},
        readme \in {EmptyDict,
                    "README.rst" :> FileRecord("reStructuredText", "prose", "documentation",
                        "+" :> <<Line("documentation", "documentation")>>),
                    "README.rst" :> FileRecord("reStructuredText", "prose", "documentation",
                        ("+" :> <<Line("code", "documentation")>>)
                        @@ ("-" :> <<Line("documentation", "documentation")>>))},
        metadata \in {EmptyDict, "commit_metadata" :> CommitMetadata,
                      "commit_metadata" :> MetadataFile},
        metric \in {EmptyDict, "n_files" :> PyScalar(1)}}

AnnotationPaths == {<<"bug1", "1.json">>, <<"bug1", "2.json">>, <<"bug2", "1.json">>}

CreateInit ==
    /\ pc = "create"
    /\ \E path \in AnnotationPaths, doc \in Docs(MaxLines) :
           gather_docs = <<[path |-> path, data |-> doc]>>
    /\ timeline_pairs = PyNone
    /\ gather_result = EmptyDict
    /\ DatasetIdle
    /\ DiffIdle
    /\ BugIdle
    /\ UnitIdle

\* PurposeCounterResults.create(path, data) for every document
CreateResults ==
    /\ pc = "create"
    /\ gather_result' =
           ("created" :> [i \in DOMAIN gather_docs |->
                             pcr_create(gather_docs[i].path, gather_docs[i].data)])
    /\ pc' = "created"
    /\ UNCHANGED <<gather_docs, timeline_pairs, datasetVars, diffVars, bugVars, unitVars>>

CreateNext == CreateResults

SpecCreate == CreateInit /\ [][CreateNext]_vars

\* the changed-file records of a document
ChangedFiles(doc) ==
    {k \in DOMAIN doc.val :
        /\ doc.val[k].kind = "dict"
        /\ ~(k = "commit_metadata" /\ "purpose" \notin DOMAIN doc.val[k].val)}

\* the lines of a side of a changed file, none when the side is absent
SideLines(doc, file, side) ==
    IF side \in DOMAIN doc.val[file].val THEN doc.val[file].val[side].val ELSE <<>>

\* how many lines of a list have the value in the field
Occurrences(lines, field, value) ==
    Cardinality({i \in DOMAIN lines : lines[i][field] = value})

\* the sum of the values of a function
RECURSIVE SumFn(_)
SumFn(f) ==
    IF DOMAIN f = {} THEN 0
    ELSE LET x == CHOOSE y \in DOMAIN f : TRUE
         IN  f[x] + SumFn([y \in DOMAIN f \ {x} |-> f[y]])

\* over all changed files, the lines of a side with the value in the field
TotalLines(doc, side, field, value) ==
    SumFn([file \in ChangedFiles(doc) |->
              Occurrences(SideLines(doc, file, side), field, value)])

DocPurposes == {"programming", "documentation", "other"}
DocTypes == {"code", "documentation"}

\* the counter holds the count of each purpose and no other key
CounterIs(counter, count(_)) ==
    /\ DOMAIN counter \subseteq DocPurposes
    /\ \A purpose \in DocPurposes : CounterGet(counter, purpose) = count(purpose)
    /\ \A key \in DOMAIN counter : counter[key] > 0

\* C16: create(path, doc) lists exactly [path] as processed files, counts
\* every changed-file record of doc once in hunk_purposes under the file's
\* purpose and every entry of the "+" ("-") lists once in added_line_purposes
\* (removed_line_purposes) under the line's purpose; commit metadata (key
\* 'commit_metadata' without 'purpose') and size metrics (non-mappings) add
\* nothing, and a changed file named 'commit_metadata' is counted.
C16_CreateCounts ==
    pc = "created" =>
        LET doc    == gather_docs[1].data
            result == gather_result["created"][1]
            FilesOf(purpose) ==
                Cardinality({k \in ChangedFiles(doc) :
                                doc.val[k].val["purpose"].val = purpose})
            AddedOf(purpose) == TotalLines(doc, "+", "purpose", purpose)
            RemovedOf(purpose) == TotalLines(doc, "-", "purpose", purpose)
        IN  /\ result.processed_files = <<gather_docs[1].path>>
            /\ CounterIs(result.hunk_purposes, FilesOf)
            /\ CounterIs(result.added_line_purposes, AddedOf)
            /\ CounterIs(result.removed_line_purposes, RemovedOf)

\* a document with a size metric, a changed file named 'commit_metadata' and
\* main.py with two added lines
C16_Witness ==
    /\ pc = "created"
    /\ "n_files" \in DOMAIN gather_docs[1].data.val
    /\ "commit_metadata" \in ChangedFiles(gather_docs[1].data)
    /\ "main.py" \in DOMAIN gather_docs[1].data.val
    /\ Len(SideLines(gather_docs[1].data, "main.py", "+")) = 2
    /\ gather_result["created"][1].hunk_purposes =
           ("programming" :> 1) @@ ("other" :> 1)
    /\ CounterGet(gather_result["created"][1].added_line_purposes, "programming") = 2

(***************************************************************************)
(* The sums of PurposeCounterResults over three documents a, b, c.         *)
(***************************************************************************)
DocMixed ==
    PyDict(("main.py" :> FileRecord("Python", "programming", "programming",
                ("+" :> <<Line("code", "programming")>>)
                @@ ("-" :> <<Line("code", "programming")>>)))
           @@ ("README.rst" :> FileRecord("reStructuredText", "prose", "documentation",
                "-" :> <<Line("documentation", "documentation")>>)))

AnnotationDocs ==
    {[path |-> <<"bug1", "1.json">>, data |-> DocCode],
     [path |-> <<"bug1", "2.json">>, data |-> DocProse],
     [path |-> <<"bug2", "1.json">>, data |-> DocMixed],
     [path |-> <<"bug2", "2.json">>, data |-> PyDict(EmptyDict)],
     [path |-> <<"bug3", "1.json">>, data |-> PyDict("commit_metadata" :> MetadataFile)]}

MonoidInit ==
    /\ pc = "create"
    /\ gather_docs \in [1..3 -> AnnotationDocs]
    /\ timeline_pairs = PyNone
    /\ gather_result = EmptyDict
    /\ DatasetIdle
    /\ DiffIdle
    /\ BugIdle
    /\ UnitIdle

\* the sums over a, b, c = create of the three documents: the two folds of
\* two documents, the two groupings of three, default() on either side, and
\* the fold per bug then per dataset (lines 245-253, 304-315) against the
\* flat fold
AddResults ==
    /\ pc = "created"
    /\ LET a == gather_result["created"][1]
           b == gather_result["created"][2]
           c == gather_result["created"][3]
       IN  gather_result' =
               ("fold_ab" :> pcr_add(pcr_add(pcr_default, a), b))
               @@ ("fold_ba" :> pcr_add(pcr_add(pcr_default, b), a))
               @@ ("ab_c" :> pcr_add(pcr_add(a, b), c))
               @@ ("a_bc" :> pcr_add(a, pcr_add(b, c)))
               @@ ("default_a" :> pcr_add(pcr_default, a))
               @@ ("a_default" :> pcr_add(a, pcr_default))
               @@ ("per_bug" :> pcr_add(pcr_add(pcr_default,
                                            pcr_add(pcr_add(pcr_default, a), b)),
                                        pcr_add(pcr_default, c)))
               @@ ("flat" :> pcr_add(pcr_add(pcr_add(pcr_default, a), b), c))
               @@ gather_result
    /\ pc' = "added"
    /\ UNCHANGED <<gather_docs, timeline_pairs, datasetVars, diffVars, bugVars, unitVars>>

MonoidNext == CreateResults \/ AddResults

SpecMonoid == MonoidInit /\ [][MonoidNext]_vars

SameEntries(s, t) ==
    /\ Len(s) = Len(t)
    /\ \A x \in Range(s) \cup Range(t) :
           Cardinality({i \in DOMAIN s : s[i] = x})
           = Cardinality({i \in DOMAIN t : t[i] = x})

C15_MonoidLaws ==
    pc = "added" =>
        /\ gather_result["ab_c"] = gather_result["a_bc"]
        /\ gather_result["default_a"] = gather_result["created"][1]
        /\ gather_result["a_default"] = gather_result["created"][1]
        /\ gather_result["per_bug"] = gather_result["flat"]

\* three documents with changed files were summed: the sum lists the three
\* paths in order and adds the counts of the shared purpose
C15_Witness ==
    /\ pc = "added"
    /\ gather_docs[1].data = DocCode
    /\ gather_docs[2].data = DocProse
    /\ gather_docs[3].data = DocMixed
    /\ gather_result["ab_c"].processed_files =
           <<<<"bug1", "1.json">>, <<"bug1", "2.json">>, <<"bug2", "1.json">>>>
    /\ gather_result["per_bug"].added_line_purposes =
           ("programming" :> 2) @@ ("documentation" :> 1)

(***************************************************************************)
(* The dataset fold against the documents on disk.                         *)
(***************************************************************************)
\* the annotation files of a bug that the fold processes, in order
RECURSIVE ProcessedOfBug(_, _)
ProcessedOfBug(bug_id, annotations) ==
    IF annotations = <<>> THEN <<>>
    ELSE (IF HasEllipsis(Head(annotations).name) THEN <<>>
          ELSE <<[path |-> <<bug_id, Head(annotations).name>>,
                  data |-> Head(annotations).data]>>)
         \o ProcessedOfBug(bug_id, Tail(annotations))

\* those of the first n bugs of the dataset
RECURSIVE ProcessedOfDataset(_)
ProcessedOfDataset(n) ==
    IF n = 0 THEN <<>>
    ELSE ProcessedOfDataset(n - 1)
         \o ProcessedOfBug(BugIds[n], dataset.bugs[n].annotations)

\* the sum over the documents of the count of a key in a counter of create
SumOfCounters(docs, counter, key) ==
    SumFn([i \in DOMAIN docs |->
              CounterGet(pcr_create(docs[i].path, docs[i].data)[counter], key)])

\* C17: the result that AnnotatedBugDataset.gather_data(create, default)
\* returns lists the path of every annotation file of every bug of the
\* dataset exactly once, in order, except the files whose name contains
\* '...', and each of its three counters is the sum of the counters of
\* create over exactly those files.
C17_DatasetFold ==
    (pc = "gathered" /\ method = "gather_data" /\ dataset.readable) =>
        LET docs == ProcessedOfDataset(Len(dataset.bugs))
        IN  /\ combined_results.processed_files = [i \in DOMAIN docs |-> docs[i].path]
            /\ \A counter \in {"hunk_purposes", "added_line_purposes",
                               "removed_line_purposes"} :
                   /\ DOMAIN combined_results[counter] \subseteq DocPurposes
                   /\ \A purpose \in DocPurposes :
                          CounterGet(combined_results[counter], purpose)
                          = SumOfCounters(docs, counter, purpose)

\* a dataset of two bugs, the first with three annotation files of which one
\* has '...' in its name: the fold returned with three processed files
C17_Witness ==
    /\ pc = "gathered"
    /\ method = "gather_data"
    /\ Len(dataset.bugs) = 2
    /\ Len(dataset.bugs[1].annotations) = 3
    /\ combined_results.processed_files =
           <<<<"bug1", "1.json">>, <<"bug1", "2.json">>, <<"bug2", "1.json">>>>
    /\ combined_results.hunk_purposes = ("programming" :> 2) @@ ("documentation" :> 1)

(***************************************************************************)
(* gather_data.py: map_diff_to_lines_stats.  A key f"{data_type}.{value}"  *)
(* is the string "type.code"; a Counter is a function from keys to counts. *)
(***************************************************************************)
\* f"{data_type}.{line_data}"
TagKey(data_type, line_data) == data_type \o "." \o line_data

\* lines 469-475: the loop over the lines of a side
RECURSIVE LinesStatsLines(_, _, _)
LinesStatsLines(record, line_type_, lines) ==
    IF lines = <<>> THEN record
    ELSE LET line == Head(lines)
             counted == [record EXCEPT ![line_type_] = CounterInc(@, "count", 1)]
             typed == [counted EXCEPT
                          ![line_type_] = CounterInc(@, TagKey("type", line.type), 1),
                          !["+/-"] = CounterInc(@, TagKey("type", line.type), 1)]
             purposed == [typed EXCEPT
                          ![line_type_] = CounterInc(@, TagKey("purpose", line.purpose), 1),
                          !["+/-"] = CounterInc(@, TagKey("purpose", line.purpose), 1)]
         IN  LinesStatsLines(purposed, line_type_, Tail(lines))

\* lines 444-475: the record of a changed file
LinesStatsRecord(file_data) ==
    LET per_file == [key \in DOMAIN file_data.val \cap {"language", "type", "purpose"}
                        |-> file_data.val[key]]
        empty == ("+" :> EmptyDict) @@ ("-" :> EmptyDict) @@ ("+/-" :> EmptyDict)
                 @@ per_file
        added == IF "+" \in DOMAIN file_data.val
                 THEN LinesStatsLines(empty, "+", file_data.val["+"].val)
                 ELSE empty
    IN  IF "-" \in DOMAIN file_data.val
        THEN LinesStatsLines(added, "-", file_data.val["-"].val)
        ELSE added

\* lines 398-477: map_diff_to_lines_stats
map_diff_to_lines_stats(annotation_file_basename, annotation_data) ==
    IF ChangesRaise(annotation_data) THEN RaisedEx("TypeError")
    ELSE [filename \in {k \in DOMAIN annotation_data.val :
                           maybe_changes(k, annotation_data.val[k]).kind # "None"}
             |-> LinesStatsRecord(annotation_data.val[filename])]

LinesStatsInit ==
    /\ pc = "lines_stats"
    /\ \E doc \in Docs(MaxLines) :
           gather_docs = <<[path |-> "1.json", data |-> doc]>>
    /\ timeline_pairs = PyNone
    /\ gather_result = EmptyDict
    /\ DatasetIdle
    /\ DiffIdle
    /\ BugIdle
    /\ UnitIdle

\* map_diff_to_lines_stats(basename, data) for the document
MapLinesStats ==
    /\ pc = "lines_stats"
    /\ gather_result' =
           ("lines_stats" :> map_diff_to_lines_stats(gather_docs[1].path,
                                                     gather_docs[1].data))
    /\ pc' = "lines_stats_done"
    /\ UNCHANGED <<gather_docs, timeline_pairs, datasetVars, diffVars, bugVars, unitVars>>

LinesStatsNext == MapLinesStats

SpecLinesStats == LinesStatsInit /\ [][LinesStatsNext]_vars

\* the multiset of a list of lines: their number under "count" and the
\* number of those with each type and purpose under "type.T", "purpose.P"
StatKeys ==
    {"count"} \cup {TagKey("type", type) : type \in DocTypes}
              \cup {TagKey("purpose", purpose) : purpose \in DocPurposes}

SideStat(lines, key) ==
    IF key = "count" THEN Len(lines)
    ELSE IF \E type \in DocTypes : key = TagKey("type", type)
         THEN Occurrences(lines, "type",
                          CHOOSE type \in DocTypes : key = TagKey("type", type))
         ELSE Occurrences(lines, "purpose",
                          CHOOSE purpose \in DocPurposes :
                              key = TagKey("purpose", purpose))

\* the per-side part of the statement: one record per changed file with the
\* file's language, type and purpose and the multisets of its two sides
LinesStatsSides ==
    pc = "lines_stats_done" =>
        LET doc    == gather_docs[1].data
            result == gather_result["lines_stats"]
        IN  /\ DOMAIN result = ChangedFiles(doc)
            /\ \A file \in ChangedFiles(doc) :
                   /\ \A key \in {"language", "type", "purpose"} :
                          result[file][key] = doc.val[file].val[key]
                   /\ \A side \in {"+", "-"} :
                          /\ DOMAIN result[file][side] \subseteq StatKeys
                          /\ \A key \in StatKeys :
                                 CounterGet(result[file][side], key)
                                 = SideStat(SideLines(doc, file, side), key)

\* C18: map_diff_to_lines_stats builds one record per changed file, copying
\* language, type and purpose, where record[s] counts the lines of side s
\* under "count" and under their "type.T" and "purpose.P", and the "+/-"
\* multiset is the sum of the "+" and "-" multisets over the same count,
\* type-tag and purpose-tag keys.
C18_LinesStats ==
    /\ LinesStatsSides
    /\ pc = "lines_stats_done" =>
           \A file \in ChangedFiles(gather_docs[1].data) :
               LET record == gather_result["lines_stats"][file]
               IN  \A key \in StatKeys :
                       CounterGet(record["+/-"], key)
                       = CounterGet(record["+"], key) + CounterGet(record["-"], key)

\* the "+/-" multiset is the sum of the two sides over the type-tag and
\* purpose-tag keys, and never has the key "count"
LinesStatsCombined ==
    pc = "lines_stats_done" =>
        \A file \in ChangedFiles(gather_docs[1].data) :
            LET record == gather_result["lines_stats"][file]
            IN  /\ "count" \notin DOMAIN record["+/-"]
                /\ \A key \in StatKeys \ {"count"} :
                       CounterGet(record["+/-"], key)
                       = CounterGet(record["+"], key) + CounterGet(record["-"], key)

(***************************************************************************)
(* gather_data.py: map_diff_to_timeline.  purpose_to_annotation is None or *)
(* a list of tuples, each what parse_colon_separated_pair made of an       *)
(* option value: ('A', 'B') of 'A:B', ('A', 'A') of 'A', and a tuple of    *)
(* three of 'A:B:C'.  The result is a plain dict: the Counter of the       *)
(* namespaced keys, updated with the per-commit information.               *)
(***************************************************************************)
\* dict(list of pairs): a later pair replaces an earlier one with its key
RECURSIVE DictOfPairs(_)
DictOfPairs(pairs) ==
    IF pairs = <<>> THEN EmptyDict
    ELSE LET last == pairs[Len(pairs)]
         IN  (last[1] :> last[2]) @@ DictOfPairs(SubSeq(pairs, 1, Len(pairs) - 1))

\* lines 554-558
purpose_to_type_dict(purpose_to_annotation) ==
    LET given == IF purpose_to_annotation.kind = "None" THEN <<>>
                 ELSE purpose_to_annotation.val
        IsPair(elem) == Len(elem) = 2
    IN  DictOfPairs(SelectSeq(given, IsPair))

\* the line data that replaces the purpose of the line as well as its type
TimelineLineData_any(data_type, line, file_data, to_type) ==
    IF file_data.val["purpose"].val \in DOMAIN to_type
    THEN to_type[file_data.val["purpose"].val]
    ELSE line[data_type]

\* lines 616-619
TimelineLineData(data_type, line, file_data, to_type) ==
    IF data_type = "type" /\ file_data.val["purpose"].val \in DOMAIN to_type
    THEN to_type[file_data.val["purpose"].val]
    ELSE line[data_type]

\* lines 611-621: the loop over the lines of a side
RECURSIVE TimelineLines(_, _, _, _)
TimelineLines(counter, lines, file_data, to_type) ==
    IF lines = <<>> THEN counter
    ELSE LET line == Head(lines)
             counted == CounterInc(counter, "count", 1)
             typed == CounterInc(counted,
                          TagKey("type", TimelineLineData("type", line, file_data, to_type)), 1)
             purposed == CounterInc(typed,
                          TagKey("purpose", TimelineLineData("purpose", line, file_data, to_type)), 1)
         IN  TimelineLines(purposed, Tail(lines), file_data, to_type)

\* lines 597-621: per_file_data
PerFileData(file_data, to_type) ==
    LET per_file == [key \in DOMAIN file_data.val \cap {"language", "type", "purpose"}
                        |-> file_data.val[key]]
        SideCounter(side) ==
            IF side \in DOMAIN file_data.val
            THEN TimelineLines(EmptyDict, file_data.val[side].val, file_data, to_type)
            ELSE EmptyDict
    IN  ("+" :> SideCounter("+")) @@ ("-" :> SideCounter("-")) @@ per_file

\* the namespaced keys of per_file_data with the amount each adds: the count
\* of a sub-key of a Counter, 1 for a string value
FlatItems(per_file_data) ==
    UNION {{<<side \o ":" \o sub_key, per_file_data[side][sub_key]>> :
               sub_key \in DOMAIN per_file_data[side]} : side \in {"+", "-"}}
    \cup {<<key \o ":" \o per_file_data[key].val, 1>> :
             key \in DOMAIN per_file_data \ {"+", "-"}}

\* the flattening that stores the amount in place of adding it
RECURSIVE Flatten_store(_, _)
Flatten_store(result, items) ==
    IF items = {} THEN result
    ELSE LET item == CHOOSE i \in items : TRUE
         IN  Flatten_store((item[1] :> item[2]) @@ result, items \ {item})

\* lines 623-631: result[f"{key}:{sub_key}"] += sub_value
RECURSIVE Flatten(_, _)
Flatten(result, items) ==
    IF items = {} THEN result
    ELSE LET item == CHOOSE i \in items : TRUE
         IN  Flatten(CounterInc(result, item[1], item[2]), items \ {item})

\* the per-commit information with the author's fields only and no n_parents
CommitInfo_author(file_data) ==
    IF "author" \in DOMAIN file_data.val
    THEN [key \in {"author." \o authorship_key :
                      authorship_key \in {"timestamp", "tz_info", "name", "email"}
                                         \cap DOMAIN file_data.val["author"].val}
             |-> file_data.val["author"].val[
                     CHOOSE authorship_key \in DOMAIN file_data.val["author"].val :
                         key = "author." \o authorship_key]]
    ELSE EmptyDict

\* lines 571-582: the per-commit information of the entry 'commit_metadata'
CommitInfo(file_data) ==
    LET items == UNION {{<<metadata_key \o "." \o authorship_key,
                           file_data.val[metadata_key].val[authorship_key]>> :
                            authorship_key \in {"timestamp", "tz_info", "name", "email"}
                                               \cap DOMAIN file_data.val[metadata_key].val} :
                        metadata_key \in {"author", "committer"} \cap DOMAIN file_data.val}
        authorship == [key \in {item[1] : item \in items}
                          |-> (CHOOSE item \in items : item[1] = key)[2]]
    IN  IF "parents" \in DOMAIN file_data.val
        THEN ("n_parents" :> Len(file_data.val["parents"].val)) @@ authorship
        ELSE authorship

\* lines 563-631: the loop over annotation_data.items(); the state of the
\* loop is [result, per_commit_info]
RECURSIVE TimelineLoop(_, _, _, _)
TimelineLoop(annotation_data, keys, to_type, acc) ==
    IF keys = {} THEN acc
    ELSE LET filename == CHOOSE k \in keys : TRUE
             file_data == annotation_data.val[filename]
             rest == keys \ {filename}
         IN  IF is_diff_metadata(filename, file_data)
             THEN TimelineLoop(annotation_data, rest, to_type,
                      [acc EXCEPT !.per_commit_info =
                                      (("diff." \o filename) :> file_data) @@ @])
             ELSE LET info == IF filename = "commit_metadata"
                              THEN CommitInfo(file_data) @@ acc.per_commit_info
                              ELSE acc.per_commit_info
                  IN  IF filename = "commit_metadata"
                         /\ "purpose" \notin DOMAIN file_data.val
                      THEN TimelineLoop(annotation_data, rest, to_type,
                               [acc EXCEPT !.per_commit_info = info])
                      ELSE TimelineLoop(annotation_data, rest, to_type,
                               [result |->
                                    Flatten(CounterInc(acc.result, "file_names", 1),
                                            FlatItems(PerFileData(file_data, to_type))),
                                per_commit_info |-> info])

\* lines 480-635: map_diff_to_timeline
map_diff_to_timeline(annotation_file_basename, annotation_data, purpose_to_annotation) ==
    LET done == TimelineLoop(annotation_data, DOMAIN annotation_data.val,
                             purpose_to_type_dict(purpose_to_annotation),
                             [result |-> EmptyDict, per_commit_info |-> EmptyDict])
    IN  done.per_commit_info @@ done.result

\* the values of --purpose-to-annotation: none, 'documentation',
\* 'programming:test', 'documentation:code' then 'documentation', and
\* 'programming:code:x'
PairLists ==
    {PyNone,
     PyList(<<>>),
     PyList(<<<<"documentation", "documentation">>>>),
     PyList(<<<<"programming", "test">>>>),
     PyList(<<<<"documentation", "code">>, <<"documentation", "documentation">>>>),
     PyList(<<<<"programming", "code", "x">>>>)}

\* the documents as annotate writes them, with their size metrics
TimelineDocs == {doc \in Docs(MaxLines) : "n_files" \in DOMAIN doc.val}

TimelineInit ==
    /\ pc = "timeline"
    /\ \E doc \in TimelineDocs :
           gather_docs = <<[path |-> "1.json", data |-> doc]>>
    /\ timeline_pairs \in PairLists
    /\ gather_result = EmptyDict
    /\ DatasetIdle
    /\ DiffIdle
    /\ BugIdle
    /\ UnitIdle

\* map_diff_to_timeline(basename, data, purpose_to_annotation)
MapTimeline ==
    /\ pc = "timeline"
    /\ gather_result' =
           ("timeline" :> map_diff_to_timeline(gather_docs[1].path, gather_docs[1].data,
                                               timeline_pairs))
    /\ pc' = "timeline_done"
    /\ UNCHANGED <<gather_docs, timeline_pairs, datasetVars, diffVars, bugVars, unitVars>>

TimelineNext == MapTimeline

SpecTimeline == TimelineInit /\ [][TimelineNext]_vars

\* the line types a timeline counts: those of the lines and the mapped ones
TimelineTypes == DocTypes \cup {"test"}

\* no remapping is supplied: the option is absent or its list is empty
NoRemapping == timeline_pairs.kind = "None" \/ timeline_pairs.val = <<>>

\* the keys of the timeline that count lines
TimelineCountKeys ==
    {side \o ":" \o key :
        side \in {"+", "-"},
        key \in {"count"} \cup {TagKey("type", type) : type \in TimelineTypes}
                          \cup {TagKey("purpose", purpose) : purpose \in DocPurposes}}

\* the keys of a timeline whose prefix names a side
SideKeys(result) ==
    {key \in DOMAIN result :
        \E side \in {"+", "-"}, type \in TimelineTypes \cup DocPurposes \cup {""} :
            key \in {side \o ":count", side \o ":" \o TagKey("type", type),
                     side \o ":" \o TagKey("purpose", type)}}

\* all the lines of a side over the changed files
TotalCount(doc, side) ==
    SumFn([file \in ChangedFiles(doc) |-> Len(SideLines(doc, file, side))])

\* C19: with no remapping supplied, map_diff_to_timeline returns a
\* single-level record in which "file_names" is the number of changed-file
\* records of the document, "{side}:count" the number of lines of the side
\* over all changed files, and "{side}:type.T", "{side}:purpose.P" the
\* number of the side's lines with type T, purpose P over all files; as in
\* a multiset, a key whose count is zero is absent from the record.
C19_TimelineFlattening ==
    (pc = "timeline_done" /\ NoRemapping) =>
        LET doc    == gather_docs[1].data
            result == gather_result["timeline"]
        IN  /\ CounterGet(result, "file_names") = Cardinality(ChangedFiles(doc))
            /\ \A side \in {"+", "-"} :
                   /\ CounterGet(result, side \o ":count") = TotalCount(doc, side)
                   /\ \A type \in TimelineTypes :
                          CounterGet(result, side \o ":" \o TagKey("type", type))
                          = TotalLines(doc, side, "type", type)
                   /\ \A purpose \in DocPurposes :
                          CounterGet(result, side \o ":" \o TagKey("purpose", purpose))
                          = TotalLines(doc, side, "purpose", purpose)
            /\ \A key \in DOMAIN result \cap (TimelineCountKeys \cup {"file_names"}) :
                   result[key] > 0

\* a document of two changed files with added lines, commit metadata and a
\* size metric: the added lines of both files are counted together
C19_Witness ==
    /\ pc = "timeline_done"
    /\ NoRemapping
    /\ ChangedFiles(gather_docs[1].data) = {"main.py", "README.rst"}
    /\ DOMAIN gather_docs[1].data.val =
           {"main.py", "README.rst", "commit_metadata", "n_files"}
    /\ CounterGet(gather_result["timeline"], "file_names") = 2
    /\ CounterGet(gather_result["timeline"], "+:count") = 3
    /\ CounterGet(gather_result["timeline"], "+:type.documentation") = 2
    /\ "-:count" \notin DOMAIN gather_result["timeline"]

\* the line type that the pairs give to the lines of a file of the purpose:
\* that of the last pair for the purpose, None when there is no such pair
MappedType(purpose) ==
    LET given == IF timeline_pairs.kind = "None" THEN <<>> ELSE timeline_pairs.val
        at == {i \in DOMAIN given : Len(given[i]) = 2 /\ given[i][1] = purpose}
    IN  IF at = {} THEN None
        ELSE given[CHOOSE i \in at : \A j \in at : j <= i][2]

\* the lines of a side of a file that count under the type
CountedUnder(doc, file, side, type) ==
    LET mapped == MappedType(doc.val[file].val["purpose"].val)
    IN  IF mapped = None
        THEN Occurrences(SideLines(doc, file, side), "type", type)
        ELSE IF mapped = type THEN Len(SideLines(doc, file, side)) ELSE 0

\* C20: given (purpose, line-type) pairs, map_diff_to_timeline counts every
\* line of a changed file whose purpose is one of the given purposes under
\* "{side}:type.<mapped line-type>" and the lines of the other files under
\* their own type; "{side}:count" and the "{side}:purpose.P" are the same as
\* with no remapping, and for each side the type counters sum to the count.
C20_PurposeToTypeRemapping ==
    pc = "timeline_done" =>
        LET doc    == gather_docs[1].data
            result == gather_result["timeline"]
        IN  \A plain \in {map_diff_to_timeline(gather_docs[1].path, doc, PyNone)},
               side \in {"+", "-"} :
                /\ \A type \in TimelineTypes :
                       CounterGet(result, side \o ":" \o TagKey("type", type))
                       = SumFn([file \in ChangedFiles(doc) |->
                                   CountedUnder(doc, file, side, type)])
                /\ CounterGet(result, side \o ":count")
                   = CounterGet(plain, side \o ":count")
                /\ \A purpose \in DocPurposes :
                       CounterGet(result, side \o ":" \o TagKey("purpose", purpose))
                       = CounterGet(plain, side \o ":" \o TagKey("purpose", purpose))
                /\ SideKeys(result) \subseteq TimelineCountKeys
                /\ SumFn([type \in TimelineTypes |->
                             CounterGet(result, side \o ":" \o TagKey("type", type))])
                   = CounterGet(result, side \o ":count")

\* with 'documentation:code' then 'documentation', the added code line of
\* README.rst counts as documentation and the lines of main.py as they are
C20_Witness ==
    /\ pc = "timeline_done"
    /\ timeline_pairs.kind = "list"
    /\ Len(timeline_pairs.val) = 2
    /\ ChangedFiles(gather_docs[1].data) = {"main.py", "README.rst"}
    /\ SideLines(gather_docs[1].data, "README.rst", "+") = <<Line("code", "documentation")>>
    /\ SideLines(gather_docs[1].data, "main.py", "+") = <<Line("code", "programming")>>
    /\ CounterGet(gather_result["timeline"], "+:type.documentation") = 1
    /\ CounterGet(gather_result["timeline"], "+:type.code") = 1
    /\ CounterGet(gather_result["timeline"], "+:purpose.documentation") = 1

(***************************************************************************)
(* The three mappers on documents with an entry 'commit_metadata' of every *)
(* shape: commit metadata with or without author, committer and parents, a *)
(* changed file of that name, a number, null, a string and a list.         *)
(***************************************************************************)
AuthorFull ==
    PyDict(("author" :> PyScalar("Ann <ann@example.com>")) @@ ("name" :> PyScalar("Ann"))
           @@ ("email" :> PyScalar("ann@example.com"))
           @@ ("timestamp" :> PyScalar(1611763190)) @@ ("tz_info" :> PyScalar("-0500")))

CommitterPart ==
    PyDict(("committer" :> PyScalar("GitHub")) @@ ("name" :> PyScalar("GitHub"))
           @@ ("timestamp" :> PyScalar(1611763200)))

\* the mappings under 'commit_metadata': the commit metadata that annotate
\* writes, in whole or in part, alone or with the fields of a changed file
MetadataDicts ==
    {PyDict(("id" :> PyScalar("e54746")) @@ author @@ committer @@ parents @@ file) :
        author \in {EmptyDict, "author" :> AuthorFull,
                    "author" :> PyDict("name" :> PyScalar("Ann"))},
        committer \in {EmptyDict, "committer" :> CommitterPart},
        parents \in {EmptyDict, "parents" :> PyList(<<>>),
                     "parents" :> PyList(<<"93b615", "1a2b3c">>)},
        file \in {EmptyDict, MetadataFile.val}}

\* the other values a JSON document can hold under 'commit_metadata'
MetadataValues ==
    {PyScalar(5), PyNone, PyStr("e54746"), PyStr("purpose"),
     PyList(<<"e54746">>), PyList(<<"purpose">>)}

MetadataDocs ==
    {PyDict(main @@ metadata @@ metric) :
        main \in {EmptyDict,
                  "main.py" :> FileRecord("Python", "programming", "programming",
                      ("+" :> <<Line("code", "programming")>>)
                      @@ ("-" :> <<Line("documentation", "programming")>>))},
        metadata \in {EmptyDict}
                     \cup {"commit_metadata" :> value :
                              value \in MetadataDicts \cup MetadataValues},
        metric \in {EmptyDict, "n_files" :> PyScalar(1)}}

MetadataInit ==
    /\ pc = "mappers"
    /\ \E doc \in MetadataDocs :
           gather_docs = <<[path |-> "1.json", data |-> doc]>>
    /\ timeline_pairs = PyNone
    /\ gather_result = EmptyDict
    /\ DatasetIdle
    /\ DiffIdle
    /\ BugIdle
    /\ UnitIdle

\* map_diff_to_timeline(basename, data)
MetadataTimeline ==
    /\ pc = "mappers"
    /\ "timeline" \notin DOMAIN gather_result
    /\ gather_result' =
           ("timeline" :> map_diff_to_timeline(gather_docs[1].path, gather_docs[1].data,
                                               timeline_pairs))
           @@ gather_result
    /\ UNCHANGED <<pc, gather_docs, timeline_pairs, datasetVars, diffVars, bugVars, unitVars>>

\* PurposeCounterResults.create(path, data)
MetadataCreate ==
    /\ pc = "mappers"
    /\ "created" \notin DOMAIN gather_result
    /\ gather_result' =
           ("created" :> pcr_create(gather_docs[1].path, gather_docs[1].data))
           @@ gather_result
    /\ UNCHANGED <<pc, gather_docs, timeline_pairs, datasetVars, diffVars, bugVars, unitVars>>

\* map_diff_to_lines_stats(basename, data)
MetadataLinesStats ==
    /\ pc = "mappers"
    /\ "lines_stats" \notin DOMAIN gather_result
    /\ gather_result' =
           ("lines_stats" :> map_diff_to_lines_stats(gather_docs[1].path,
                                                     gather_docs[1].data))
           @@ gather_result
    /\ UNCHANGED <<pc, gather_docs, timeline_pairs, datasetVars, diffVars, bugVars, unitVars>>

MetadataNext == MetadataTimeline \/ MetadataCreate \/ MetadataLinesStats

SpecMetadata == MetadataInit /\ [][MetadataNext]_vars

AuthorshipKeys == {"timestamp", "tz_info", "name", "email"}

\* C21: for a document with a mapping under 'commit_metadata',
\* map_diff_to_timeline copies each present field of author and committer
\* among timestamp, tz_info, name, email to "author.<field>",
\* "committer.<field>" (and sets no key for an absent one), sets n_parents to
\* the number of parents, does not count the entry as a changed file when it
\* has no 'purpose', and copies every non-mapping entry to "diff.<key>"
\* without counting it as a changed file.
C21_TimelineCommitMetadata ==
    (pc = "mappers" /\ "timeline" \in DOMAIN gather_result) =>
        LET doc    == gather_docs[1].data
            result == gather_result["timeline"]
        IN  /\ ("commit_metadata" \in DOMAIN doc.val
                /\ doc.val["commit_metadata"].kind = "dict") =>
                   LET metadata == doc.val["commit_metadata"].val
                   IN  /\ \A metadata_key \in {"author", "committer"},
                             field \in AuthorshipKeys :
                              IF /\ metadata_key \in DOMAIN metadata
                                 /\ field \in DOMAIN metadata[metadata_key].val
                              THEN /\ (metadata_key \o "." \o field) \in DOMAIN result
                                   /\ result[metadata_key \o "." \o field]
                                      = metadata[metadata_key].val[field]
                              ELSE (metadata_key \o "." \o field) \notin DOMAIN result
                       /\ IF "parents" \in DOMAIN metadata
                          THEN /\ "n_parents" \in DOMAIN result
                               /\ result["n_parents"] = Len(metadata["parents"].val)
                          ELSE "n_parents" \notin DOMAIN result
            /\ CounterGet(result, "file_names") = Cardinality(ChangedFiles(doc))
            /\ \A side \in {"+", "-"} :
                   CounterGet(result, side \o ":count") = TotalCount(doc, side)
            /\ \A key \in DOMAIN doc.val :
                   doc.val[key].kind # "dict" =>
                       /\ ("diff." \o key) \in DOMAIN result
                       /\ result["diff." \o key] = doc.val[key]

\* commit metadata with a full author, a partial committer and two parents
\* beside main.py and a size metric
C21_Witness ==
    /\ pc = "mappers"
    /\ "timeline" \in DOMAIN gather_result
    /\ DOMAIN gather_docs[1].data.val = {"main.py", "commit_metadata", "n_files"}
    /\ gather_docs[1].data.val["commit_metadata"].kind = "dict"
    /\ DOMAIN gather_docs[1].data.val["commit_metadata"].val
           = {"id", "author", "committer", "parents"}
    /\ gather_docs[1].data.val["commit_metadata"].val["author"] = AuthorFull
    /\ gather_result["timeline"]["author.email"] = PyScalar("ann@example.com")
    /\ gather_result["timeline"]["author.timestamp"] = PyScalar(1611763190)
    /\ gather_result["timeline"]["committer.name"] = PyScalar("GitHub")
    /\ "committer.email" \notin DOMAIN gather_result["timeline"]
    /\ gather_result["timeline"]["n_parents"] = 2
    /\ gather_result["timeline"]["diff.n_files"] = PyScalar(1)
    /\ gather_result["timeline"]["file_names"] = 1

\* the call raised
IsRaise(outcome) == "kind" \in DOMAIN outcome /\ outcome.kind = "raise"

AllMapped ==
    pc = "mappers" /\ DOMAIN gather_result = {"timeline", "created", "lines_stats"}

\* C30: for every document of the mixed layout, whatever the shape of the
\* value under 'commit_metadata', no mapper fails on an entry that another
\* one skips, and the three mappers count the same entries as changed files:
\* the timeline's "file_names", the total of the hunk purposes of create and
\* the number of records of the per-file line stats are equal.
C30_MappersAgree ==
    AllMapped =>
        /\ ~IsRaise(gather_result["created"])
        /\ ~IsRaise(gather_result["lines_stats"])
        /\ CounterGet(gather_result["timeline"], "file_names")
           = SumFn(gather_result["created"].hunk_purposes)
        /\ CounterGet(gather_result["timeline"], "file_names")
           = Cardinality(DOMAIN gather_result["lines_stats"])

\* the mappers agree on the documents on which none of them raises, and
\* create and the line stats raise exactly for a number or null under
\* 'commit_metadata', which the timeline copies to "diff.commit_metadata"
MappersAgreeUnlessRaise ==
    AllMapped =>
        LET doc == gather_docs[1].data
            raises == /\ "commit_metadata" \in DOMAIN doc.val
                      /\ doc.val["commit_metadata"].kind \in {"scalar", "None"}
        IN  /\ IsRaise(gather_result["created"]) <=> raises
            /\ IsRaise(gather_result["lines_stats"]) <=> raises
            /\ raises => gather_result["timeline"]["diff.commit_metadata"]
                         = doc.val["commit_metadata"]
            /\ ~raises =>
                   /\ CounterGet(gather_result["timeline"], "file_names")
                      = SumFn(gather_result["created"].hunk_purposes)
                   /\ CounterGet(gather_result["timeline"], "file_names")
                      = Cardinality(DOMAIN gather_result["lines_stats"])

(***************************************************************************)
(* annotate.py: purpose_to_annotation_callback.  An option value is the    *)
(* sequence of its pieces, a piece being a colon or a text without colon,  *)
(* so that the empty string is <<>>; Text gives the string of the pieces.  *)
(***************************************************************************)
RECURSIVE Text(_)
Text(pieces) == IF pieces = <<>> THEN "" ELSE Head(pieces) \o Text(Tail(pieces))

\* str.split(sep=':', maxsplit=1) of a value with a colon: [key, val]
SplitAtFirstColon(pieces) ==
    LET at == CHOOSE i \in DOMAIN pieces :
                  /\ pieces[i] = ":"
                  /\ \A j \in 1..(i - 1) : pieces[j] # ":"
    IN  [key |-> Text(SubSeq(pieces, 1, at - 1)),
         val |-> Text(SubSeq(pieces, at + 1, Len(pieces)))]

\* the callback for which only the empty string resets the mapping
OptionApply_empty(mapping, colon_separated_pair) ==
    IF colon_separated_pair = <<>>
    THEN EmptyDict
    ELSE IF \E i \in DOMAIN colon_separated_pair : colon_separated_pair[i] = ":"
         THEN (SplitAtFirstColon(colon_separated_pair).key
                  :> SplitAtFirstColon(colon_separated_pair).val) @@ mapping
         ELSE (Text(colon_separated_pair) :> Text(colon_separated_pair)) @@ mapping

\* lines 791-797: one pass of the loop over values
OptionApply(mapping, colon_separated_pair) ==
    IF colon_separated_pair = <<>> \/ Text(colon_separated_pair) \in {"\"\"", "''"}
    THEN EmptyDict
    ELSE IF \E i \in DOMAIN colon_separated_pair : colon_separated_pair[i] = ":"
         THEN (SplitAtFirstColon(colon_separated_pair).key
                  :> SplitAtFirstColon(colon_separated_pair).val) @@ mapping
         ELSE (Text(colon_separated_pair) :> Text(colon_separated_pair)) @@ mapping

MaxOptions == 2

\* '', '""', "''", 'programming', 'documentation:code', 'programming:code:x'
OptionValues ==
    {<<>>, <<"\"\"">>, <<"''">>, <<"programming">>,
     <<"documentation", ":", "code">>, <<"programming", ":", "code", ":", "x">>}

OptionLists == {PyNone} \cup {PyList(values) : values \in SeqsUpTo(OptionValues, MaxOptions)}

\* the hunk of the annotator runs that follow the configuration
OptionHunk == <<Removed(<<"#", LF>>), Added(<<"a", LF>>)>>

ConfigInit ==
    /\ pc = "configure"
    /\ option_values \in OptionLists
    /\ option_no = 0
    /\ PURPOSE_TO_ANNOTATION = ("documentation" :> "documentation")
    /\ line_callback = None
    /\ lexer_cuts = {}
    /\ \E f \in {ModifiedCode, ModifiedDoc} :
           patched_file = [source_file |-> f.source_file,
                           target_file |-> f.target_file,
                           hunks       |-> <<OptionHunk>>]
    /\ apf = NoAnnotatedFile
    /\ hunk_no = 0
    /\ hunk_data = PyDict(EmptyDict)
    /\ hunk_outputs = <<>>
    /\ lex_calls = {}
    /\ callback_calls = {}
    /\ RealignIdle
    /\ FillIdle
    /\ ClassifyIdle
    /\ UpdateIdle
    /\ BatchIdle

\* lines 790-797: one pass of the loop
ConfigureValue ==
    /\ pc = "configure"
    /\ option_values.kind = "list"
    /\ option_no < Len(option_values.val)
    /\ PURPOSE_TO_ANNOTATION' =
           OptionApply(PURPOSE_TO_ANNOTATION, option_values.val[option_no + 1])
    /\ option_no' = option_no + 1
    /\ UNCHANGED <<pc, line_callback, option_values, annotateVars, lexer_cuts,
                   realignVars, fillVars, classifyVars, updateVars, batchVars>>

\* lines 786-787 and 799: the callback returns, the files are annotated
ConfigureReturn ==
    /\ pc = "configure"
    /\ option_values.kind = "list" => option_no = Len(option_values.val)
    /\ pc' = "construct"
    /\ UNCHANGED <<configVars, annotateVars, lexer_cuts,
                   realignVars, fillVars, classifyVars, updateVars, batchVars>>

ConfigNext == ConfigureValue \/ ConfigureReturn \/ AnnotateNext

SpecConfig == ConfigInit /\ [][ConfigNext]_vars

\* the values handled so far
HandledValues ==
    IF option_values.kind = "None" THEN <<>> ELSE SubSeq(option_values.val, 1, option_no)

\* the key and the value that an option value sets
KeyOf(pieces) ==
    IF \E i \in DOMAIN pieces : pieces[i] = ":"
    THEN SplitAtFirstColon(pieces).key ELSE Text(pieces)

ValOf(pieces) ==
    IF \E i \in DOMAIN pieces : pieces[i] = ":"
    THEN SplitAtFirstColon(pieces).val ELSE Text(pieces)

\* the mapping after the values, Sentinel telling which values reset it: the
\* entries set after the last sentinel, each key with the value set last, on
\* top of {documentation: documentation} when there was no sentinel
MappingAfter(values, Sentinel(_)) ==
    LET resets == {i \in DOMAIN values : Sentinel(values[i])}
        last   == IF resets = {} THEN 0
                  ELSE CHOOSE i \in resets : \A j \in resets : j <= i
        base   == IF resets = {} THEN ("documentation" :> "documentation")
                  ELSE EmptyDict
        sets   == (last + 1)..Len(values)
    IN  [key \in DOMAIN base \cup {KeyOf(values[i]) : i \in sets} |->
            IF \E i \in sets : KeyOf(values[i]) = key
            THEN ValOf(values[CHOOSE i \in sets :
                                  /\ KeyOf(values[i]) = key
                                  /\ \A j \in sets : KeyOf(values[j]) = key => j <= i])
            ELSE base[key]]

EmptyString(pieces) == pieces = <<>>

EmptyOrQuotes(pieces) == pieces = <<>> \/ Text(pieces) \in {"\"\"", "''"}

ConfigForcedWitness ==
    /\ HunkDone
    /\ option_no = 2
    /\ PURPOSE_TO_ANNOTATION = ("documentation" :> "code") @@ ("programming" :> "code:x")
    /\ FilePurpose = "programming"
    /\ lex_calls = {}
    /\ Emitted("+")[1].type = "code:x"

(***************************************************************************)
(* The fragments of each token, after split_multiline_lex_tokens.          *)
(***************************************************************************)
\* the line terminators of a text, as str.splitlines sees them
Terminators(text) == Cardinality({i \in DOMAIN text : LineBreakAt(text, i)})

EndsWithTerminator(text) == text # <<>> /\ LineBreakAt(text, Len(text))

\* the tokens emitted for the i-th input token: the tokens of the lexer are
\* contiguous and not empty, so they are those that start inside its text
FragmentsOf(i) ==
    SelectSeq(tokens_split,
              LAMBDA fragment :
                  /\ fragment[1] >= tokens_unprocessed[i][1]
                  /\ fragment[1] < tokens_unprocessed[i][1] + Len(tokens_unprocessed[i][3]))

SplitDone == pc \in {"group", "fill", "realigned"}

\* C23 (as claimed): for each input token whose text holds k > 0 line
\* terminators the split emits k+1 tokens, each of the kind of the token; a
\* token without line terminator is emitted unchanged as one token.
C23_SplitCount ==
    SplitDone =>
        \A i \in DOMAIN tokens_unprocessed :
            LET token == tokens_unprocessed[i]
                k     == Terminators(token[3])
            IN  /\ \A j \in DOMAIN FragmentsOf(i) : FragmentsOf(i)[j][2] = token[2]
                /\ k > 0 => Len(FragmentsOf(i)) = k + 1
                /\ k = 0 => FragmentsOf(i) = <<token>>

\* C23 (amended): a token whose text holds k > 0 line terminators is emitted
\* as one token per line of its text, each of the kind of the token: k+1
\* tokens when the text does not end with a line terminator and k tokens
\* when it does; a token without line terminator is emitted unchanged.
C23_SplitCountLines ==
    SplitDone =>
        /\ Len(tokens_split)
           = SumFn([i \in DOMAIN tokens_unprocessed |-> Len(FragmentsOf(i))])
        /\ \A i \in DOMAIN tokens_unprocessed :
               LET token == tokens_unprocessed[i]
                   k     == Terminators(token[3])
               IN  /\ \A j \in DOMAIN FragmentsOf(i) : FragmentsOf(i)[j][2] = token[2]
                   /\ (k > 0 /\ ~EndsWithTerminator(token[3])) =>
                          Len(FragmentsOf(i)) = k + 1
                   /\ (k > 0 /\ EndsWithTerminator(token[3])) =>
                          Len(FragmentsOf(i)) = k
                   /\ k = 0 => FragmentsOf(i) = <<token>>

\* one token with two terminators that ends with one gave two fragments, and
\* one with a terminator in its middle gave two as well
C23_Witness ==
    /\ SplitDone
    /\ \E i \in DOMAIN tokens_unprocessed :
           /\ Terminators(tokens_unprocessed[i][3]) = 2
           /\ EndsWithTerminator(tokens_unprocessed[i][3])
           /\ Len(FragmentsOf(i)) = 2

\* a token with one terminator in its middle gave two fragments
SplitMiddleWitness ==
    /\ SplitDone
    /\ \E i \in DOMAIN tokens_unprocessed :
           /\ Terminators(tokens_unprocessed[i][3]) = 1
           /\ ~EndsWithTerminator(tokens_unprocessed[i][3])
           /\ Len(FragmentsOf(i)) = 2

\* C24: for a contiguous tokenization of the text, every fragment that
\* split_multiline_lex_tokens emits has as offset the start of its text in
\* the text: the offset of its token plus the lengths of the fragments of
\* that token emitted before it; so the text from the offset to the offset of
\* the next fragment is the text of the fragment, and the offsets do not
\* decrease along the output.
C24_SplitOffsets ==
    SplitDone =>
        /\ \A j \in DOMAIN tokens_split :
               LET fragment == tokens_split[j]
                   next     == IF j < Len(tokens_split) THEN tokens_split[j + 1][1]
                               ELSE Len(code)
               IN  /\ Slice(code, fragment[1], next) = fragment[3]
                   /\ fragment[1] <= next
        /\ \A i \in DOMAIN tokens_unprocessed :
               \A j \in DOMAIN FragmentsOf(i) :
                   FragmentsOf(i)[j][1]
                   = tokens_unprocessed[i][1]
                     + Len(TokensText(SubSeq(FragmentsOf(i), 1, j - 1)))

\* the second token of the text starts at 1 and holds a terminator before
\* its end: its second fragment starts at 2
C24_Witness ==
    /\ SplitDone
    /\ Len(tokens_unprocessed) = 2
    /\ tokens_unprocessed[2][1] = 1
    /\ Len(FragmentsOf(2)) = 2
    /\ FragmentsOf(2)[2][1] = 2
    /\ Len(tokens_split) = 3

(***************************************************************************)
(* group_tokens_by_line on any tokens with non-decreasing offsets: with    *)
(* gaps, with several tokens at one offset, with tokens after the last     *)
(* line end.                                                               *)
(***************************************************************************)
NonDecreasing(tokens) ==
    \A i \in 1..(Len(tokens) - 1) : tokens[i][1] <= tokens[i + 1][1]

GroupInit ==
    /\ pc = "group"
    /\ code \in SeqsUpTo({"a", LF}, MaxTextLen)
    /\ lexer_cuts = {}
    /\ tokens_unprocessed = <<>>
    /\ tokens_split \in
           {tokens \in SeqsUpTo({<<index, token_type, <<"a">>>> :
                                    index \in 0..MaxTextLen,
                                    token_type \in {"Token.Name", "Token.Text"}},
                                MaxTokens) :
               NonDecreasing(tokens)}
    /\ tokens_group = EmptyDict
    /\ tokens_filled = EmptyDict
    /\ FillIdle
    /\ ClassifyIdle
    /\ UpdateIdle
    /\ ConfigDefault
    /\ AnnotateIdle
    /\ BatchIdle

GroupNext == GroupStep \/ FillStep

SpecGroup == GroupInit /\ [][GroupNext]_vars

\* the groups one after the other, by increasing line number
RECURSIVE GroupsFrom(_, _, _)
GroupsFrom(group, no, max_no) ==
    IF no > max_no THEN <<>>
    ELSE (IF no \in DOMAIN group THEN group[no] ELSE <<>>)
         \o GroupsFrom(group, no + 1, max_no)

\* C25: for tokens with non-decreasing offsets, every token that starts
\* before the last line end is in exactly one group, that of the first line
\* whose end offset exceeds the start of the token; the groups, one after
\* the other by line number, are the input tokens that start before the last
\* line end, in input order: a prefix of the input, none skipped.
C25_GroupAssignment ==
    pc \in {"fill", "realigned"} =>
        LET ends    == line_ends_idx(code)
            last    == IF ends = <<>> THEN 0 ELSE ends[Len(ends)]
            grouped == Cardinality({t \in DOMAIN tokens_split : tokens_split[t][1] < last})
        IN  /\ DOMAIN tokens_group \subseteq 0..(Len(ends) - 1)
            /\ GroupsFrom(tokens_group, 0, Len(ends) - 1) = SubSeq(tokens_split, 1, grouped)
            /\ \A no \in DOMAIN tokens_group : \A j \in DOMAIN tokens_group[no] :
                   /\ tokens_group[no][j][1] < ends[no + 1]
                   /\ no > 0 => tokens_group[no][j][1] >= ends[no]

\* two lines and three tokens: one in the first line, one in the second after
\* a gap, one that starts at the last line end and is left out
C25_Witness ==
    /\ pc = "fill"
    /\ code = <<"a", LF, LF>>
    /\ Len(tokens_split) = 3
    /\ tokens_split[1][1] = 1
    /\ tokens_split[2][1] = 2
    /\ tokens_split[3][1] = 3
    /\ DOMAIN tokens_group = {0, 1}
    /\ tokens_group[0] = <<tokens_split[1]>>
    /\ tokens_group[1] = <<tokens_split[2]>>

(***************************************************************************)
(* The purpose of a line annotation and that of the file record it is in.  *)
(***************************************************************************)
\* C26: every line annotation in the "+" or "-" list of a file record of the
\* patch data of a changed file has the purpose of that file record, for a
\* modified file as for a rename whose two paths get different purposes.
C26_LinePurposeIsFilePurpose ==
    pc \in {"process", "processed"} =>
        \A file \in DOMAIN apf.patch_data.val : \A side \in {"+", "-"} :
            \A j \in DOMAIN Bucket(apf.patch_data, file, side) :
                Bucket(apf.patch_data, file, side)[j].purpose
                = apf.patch_data.val[file].val["purpose"].val

\* what the code keeps: every line annotation has the purpose of the path
\* the hunk is lexed by, the pre-image path unless it is /dev/null; it is the
\* purpose of its file record when the two paths have one purpose
LinePurposeIsSourcePurpose ==
    pc \in {"process", "processed"} =>
        \A file \in DOMAIN apf.patch_data.val : \A side \in {"+", "-"} :
            \A j \in DOMAIN Bucket(apf.patch_data, file, side) :
                /\ Bucket(apf.patch_data, file, side)[j].purpose = FilePurpose
                /\ apf.patch_data.val[apf.source_file].val["purpose"]
                   = apf.patch_data.val[apf.target_file].val["purpose"]
                   => Bucket(apf.patch_data, file, side)[j].purpose
                      = apf.patch_data.val[file].val["purpose"].val

(***************************************************************************)
(* The default classification and the order of the tokens of a line.       *)
(***************************************************************************)
\* the token lists with the tokens of one list in every order
Reorderings(tokens) ==
    {[i \in DOMAIN tokens |-> tokens[order[i]]] :
         order \in Permutations(DOMAIN tokens)}

OrderIndependent ==
    \A reordered \in Reorderings(tokens_list) :
        DefaultAnnotation(reordered) = line_type

\* a token of a comment kind or of a whitespace kind, whatever its text
CommentOrWhitespaceKind(token) ==
    InTokenComment(token[2]) \/ InTokenTextWhitespace(token[2])

\* C27 (as claimed): for every non-empty token list the classification does
\* not depend on the order of the tokens; a line of comment-kind and
\* whitespace-kind tokens only is "documentation", and a line with a token of
\* any other kind is "code" wherever that token stands.
C27_ClassifierByKind ==
    pc = "classified" /\ tokens_list # <<>> =>
        /\ OrderIndependent
        /\ (\A i \in DOMAIN tokens_list : CommentOrWhitespaceKind(tokens_list[i]))
               => line_type = "documentation"
        /\ (\E i \in DOMAIN tokens_list : ~CommentOrWhitespaceKind(tokens_list[i]))
               => line_type = "code"

\* C27 (amended): for every non-empty token list the classification does not
\* depend on the order of the tokens; a line of comment-kind tokens,
\* whitespace-kind tokens and generic-text tokens with whitespace-only text
\* only is "documentation", and a line with any other token is "code"
\* wherever that token stands.
C27_ClassifierOrderIndependent ==
    pc = "classified" /\ tokens_list # <<>> =>
        /\ OrderIndependent
        /\ AllCommentLike(tokens_list) => line_type = "documentation"
        /\ (\E i \in DOMAIN tokens_list : ~CommentLike(tokens_list[i]))
               => line_type = "code"

\* a line whose first token is neither comment nor whitespace, followed by
\* two comment tokens, was classified "code"
C27_Witness ==
    /\ pc = "classified"
    /\ Len(tokens_list) = 3
    /\ ~CommentLike(tokens_list[1])
    /\ InTokenComment(tokens_list[2][2])
    /\ InTokenComment(tokens_list[3][2])
    /\ line_type = "code"

(***************************************************************************)
(* The changed files of one patch, one after the other: the loop of        *)
(* annotate_single_diff (lines 501-511) and of Bug.from_patchset (lines    *)
(* 611-627) over a patch set whose entries may share a path, with a line   *)
(* callback that may raise.                                                *)
(***************************************************************************)
MaxChangedFiles == 3

PatchFiles ==
    {[source_file |-> ModifiedCode.source_file, target_file |-> ModifiedCode.target_file,
      hunks |-> <<<<Context(<<"a", LF>>), Removed(<<"a", LF>>), Added(<<"#", LF>>)>>>>],
     [source_file |-> ModifiedCode.source_file, target_file |-> ModifiedCode.target_file,
      hunks |-> <<<<Added(<<" ", LF>>), Added(<<"a", LF>>)>>>>],
     [source_file |-> ModifiedDoc.source_file, target_file |-> ModifiedDoc.target_file,
      hunks |-> <<<<Added(<<" ", LF>>), Added(<<"a", LF>>)>>>>],
     [source_file |-> RenamedCode.source_file, target_file |-> RenamedCode.target_file,
      hunks |-> <<<<Context(<<"a", LF>>), Removed(<<"a", LF>>), Added(<<"#", LF>>)>>>>],
     [source_file |-> NewDoc.source_file, target_file |-> NewDoc.target_file,
      hunks |-> <<<<Added(<<"a", LF>>)>>>>]}

PatchSets == {Parsed(ps) : ps \in SeqsUpTo(PatchFiles, MaxChangedFiles)}

\* the patch_id given to Bug.from_patchset
PatchId == "e54746"

\* Bug.from_patchset: the same loop, reported on sys.stdout with the number
\* of the patched file; the Bug holds the annotations under patch_id
BugOfLoop(patch_id, loop) ==
    [result |-> (patch_id :> loop.result),
     stderr |-> loop.stderr,
     stdout |-> IF loop.stdout = <<>> THEN <<>>
                ELSE <<"Error processing PatchSet">>]

from_patchset(patch_id, patch_set, callback, cuts, purpose_to_annotation) ==
    BugOfLoop(patch_id, PatchSetLoop(patch_set, PyDict(EmptyDict), callback, cuts,
                                     purpose_to_annotation))

PatchInit ==
    /\ pc \in {"annotate_single_diff", "from_patchset"}
    /\ diff_file \in PatchSets
    /\ missing_ok \in BOOLEAN
    /\ diff_result = PyDict(EmptyDict)
    /\ stderr = <<>>
    /\ stdout = <<>>
    /\ BugIdle
    /\ GatherIdle
    /\ RealignIdle
    /\ lexer_cuts = {}
    /\ FillIdle
    /\ ClassifyIdle
    /\ UpdateIdle
    /\ AnnotateIdle
    /\ PURPOSE_TO_ANNOTATION = ("documentation" :> "documentation")
    /\ line_callback \in {None, RaisingCallback}
    /\ OptionsIdle

FromPatchset ==
    /\ pc = "from_patchset"
    /\ \E call \in {from_patchset(PatchId, diff_file.patch_set, line_callback,
                                   lexer_cuts, PURPOSE_TO_ANNOTATION)} :
           /\ patches_data' = call.result
           /\ stderr' = stderr \o call.stderr
           /\ stdout' = stdout \o call.stdout
    /\ pc' = "bug_done"
    /\ UNCHANGED <<patches_dir, patch_no, diff_file, missing_ok, diff_result,
                   gatherVars, unitVars>>

PatchNext == AnnotateSingleDiff \/ FromPatchset

SpecPatch == PatchInit /\ [][PatchNext]_vars

PatchDone == pc \in {"diff_done", "bug_done"}

\* the Patch Annotation the call gave
PatchAnnotation == IF pc = "diff_done" THEN diff_result ELSE patches_data[PatchId]

\* what AnnotatedPatchedFile(patched_file).process() gives for the i-th file
FileAnnotation(i) ==
    FileProcess(diff_file.patch_set[i], line_callback, lexer_cuts,
                PURPOSE_TO_ANNOTATION)

\* the files whose annotation raises
RaisingFiles ==
    {i \in DOMAIN diff_file.patch_set : FileAnnotation(i).kind = "raise"}

\* the annotations the files 1..n produced for a side of a path, in order
ProducedBy(n, file, side) ==
    ConcatBuckets([i \in 1..n |-> FileAnnotation(i)], file, side)

\* the path keys the files 1..n recorded annotations at
PathKeys(n) == UNION {DOMAIN FileAnnotation(i).val : i \in 1..n}

TimesIn(seq, x) == Cardinality({j \in DOMAIN seq : seq[j] = x})

\* every annotation of produced is in held, as many times
HoldsAll(held, produced) ==
    \A j \in DOMAIN produced :
        TimesIn(held, produced[j]) >= TimesIn(produced, produced[j])

\* C28: the Patch Annotation of a patch whose files are all annotated holds,
\* for every changed file, every line annotation the file's hunks produced,
\* under the path it was recorded at, also when two entries share a path key.
C28_NoLossAcrossFiles ==
    PatchDone /\ RaisingFiles = {} =>
        LET n == Len(diff_file.patch_set)
        IN  \A file \in PathKeys(n) : \A side \in {"+", "-"} :
                HoldsAll(Bucket(PatchAnnotation, file, side), ProducedBy(n, file, side))

\* two entries of the patch set share a path key
SharedPathKey(n) ==
    \E i, j \in 1..n :
        i # j /\ DOMAIN FileAnnotation(i).val \cap DOMAIN FileAnnotation(j).val # {}

\* what the code keeps: nothing is lost when no two entries share a path key,
\* and a shared path key holds what the last entry with it recorded
NoLossUnlessSharedPath ==
    PatchDone /\ RaisingFiles = {} =>
        LET n == Len(diff_file.patch_set)
        IN  /\ DOMAIN PatchAnnotation.val = PathKeys(n)
            /\ \A file \in PathKeys(n) :
                   LET last == Max({i \in 1..n : file \in DOMAIN FileAnnotation(i).val})
                   IN  PatchAnnotation.val[file] = FileAnnotation(last).val[file]
            /\ ~SharedPathKey(n) =>
                   \A file \in PathKeys(n) : \A side \in {"+", "-"} :
                       Bucket(PatchAnnotation, file, side) = ProducedBy(n, file, side)

\* a patch of two files of distinct paths was annotated and holds the lines
\* of both
NoLossWitness ==
    /\ PatchDone
    /\ RaisingFiles = {}
    /\ Len(diff_file.patch_set) = 2
    /\ ~SharedPathKey(2)
    /\ \A i \in 1..2 : \E file \in DOMAIN FileAnnotation(i).val :
           Bucket(FileAnnotation(i), file, "+") # <<>>
           /\ Bucket(PatchAnnotation, file, "+") = Bucket(FileAnnotation(i), file, "+")

\* C29: when annotating the k-th changed file raises, the call does not
\* raise, whatever missing_ok is, and the Patch Annotation it gives holds
\* exactly the complete annotations of the files 1..k-1: every line they
\* produced and nothing else.
C29_ProcessingFailure ==
    PatchDone /\ RaisingFiles # {} =>
        LET k == Min(RaisingFiles)
        IN  /\ PatchAnnotation.kind = "dict"
            /\ DOMAIN PatchAnnotation.val = PathKeys(k - 1)
            /\ \A file \in PathKeys(k - 1) : \A side \in {"+", "-"} :
                   /\ HoldsAll(Bucket(PatchAnnotation, file, side),
                               ProducedBy(k - 1, file, side))
                   /\ HoldsAll(ProducedBy(k - 1, file, side),
                               Bucket(PatchAnnotation, file, side))

\* what the code keeps: the exception of the k-th file does not leave the
\* call, whatever missing_ok is, and the call gives what it gives for the
\* patch of the files 1..k-1 alone, which is complete when no two of them
\* share a path key
FailureGivesPrefix ==
    PatchDone /\ RaisingFiles # {} =>
        LET k == Min(RaisingFiles)
            prefix == Parsed(SubSeq(diff_file.patch_set, 1, k - 1))
        IN  /\ PatchAnnotation.kind = "dict"
            /\ \A m \in BOOLEAN :
                   /\ annotate_single_diff(diff_file, m, line_callback, lexer_cuts,
                                           PURPOSE_TO_ANNOTATION).result
                      = PatchAnnotation
                   /\ annotate_single_diff(prefix, m, line_callback, lexer_cuts,
                                           PURPOSE_TO_ANNOTATION).result
                      = PatchAnnotation
            /\ stdout # <<>>
            /\ ~SharedPathKey(k - 1) =>
                   /\ DOMAIN PatchAnnotation.val = PathKeys(k - 1)
                   /\ \A file \in PathKeys(k - 1) : \A side \in {"+", "-"} :
                          Bucket(PatchAnnotation, file, side)
                          = ProducedBy(k - 1, file, side)

\* the second of two files raised and the first file's lines were returned
FailureWitness ==
    /\ pc = "diff_done"
    /\ ~missing_ok
    /\ RaisingFiles = {2}
    /\ Bucket(diff_result, <<"main.py">>, "+") # <<>>

====
